---------------------------- MODULE Spec2Model ----------------------------
(***************************************************************************)
(* Model of package rank (src/rank/rank_base.go): the ranking facade       *)
(* RankBase over the ordered index rankMain (skiplist.SkipList), plus the  *)
(* auxiliary key -> value map dict.                                        *)
(*                                                                         *)
(* The facade (Ranker.Less, AddRanker, RemoveRanker, RemoveRankerByKey,    *)
(* UpdateRankerData and the queries) is translated from rank_base.go.      *)
(* The ordered index is imported by rank_base.go as a prebuilt dependency  *)
(* (github.com/aruyuna9531/skiplist) whose source is not in this           *)
(* repository: the Sl* operators model it from the specification's         *)
(* section 4.1 as a span-carrying skip list.                               *)
(*                                                                         *)
(* The module also models the timer of src/timer/timer.go (SpecTimer:      *)
(* PushTimerTrigger and Trigger over the map of triggers by second) and    *)
(* the wait group of src/wg/sync/waitgroup.go (SpecWg: Add, Done and Wait  *)
(* taken one access of the state word or the semaphore at a time;          *)
(* SpecWgReuse: the same with Add called at any time), Mgr of              *)
(* src/wg/wg.go (SpecMgr), and, from src/unnamed/part_003, Work with       *)
(* ContextTest (SpecWork) and the cancelCtx and timerCtx of package        *)
(* context (SpecCtx).  Each specification moves its own group of           *)
(* variables and leaves the others.                                        *)
(***************************************************************************)
EXTENDS Integers, Sequences, FiniteSets, TLC

VARIABLES rankMain, dict, last, snap, plain,
          triggers, fired, pushed, tlast,
          state, sema, added, task, waiter, wgPanic, wgHist,
          mw, fc, fcId, mgrMain,
          work,
          contexts, clast

rankVars == <<rankMain, dict, last, snap, plain>>

timerVars == <<triggers, fired, pushed, tlast>>

wgVars == <<state, sema, added, task, waiter, wgPanic, wgHist>>

mgrVars == <<mw, fc, fcId, mgrMain>>

workVars == <<work>>

ctxVars == <<contexts, clast>>

vars == <<rankVars, timerVars, wgVars, mgrVars, workVars, ctxVars>>

(* What the actions of one part of the repository leave alone. *)
notRankVars == <<timerVars, wgVars, mgrVars, workVars, ctxVars>>

notTimerVars == <<rankVars, wgVars, mgrVars, workVars, ctxVars>>

notWgVars == <<rankVars, timerVars, mgrVars, workVars, ctxVars>>

notMgrVars == <<rankVars, timerVars, wgVars, workVars, ctxVars>>

notWorkVars == <<rankVars, timerVars, wgVars, mgrVars, ctxVars>>

notCtxVars == <<rankVars, timerVars, wgVars, mgrVars, workVars>>

----------------------------------------------------------------------------
(* Bounds of the model *)

MaxKey == 3
MaxValue == 2
MaxTime == 2
MaxLevel == 2
MaxPush == 3
MaxTasks == 2
MaxWaiters == 2
MaxFc == 3
MaxWork == 3
MaxCtx == 3

Keys == 1..MaxKey
Values == 1..MaxValue
Times == 1..MaxTime
Levels == 0..(MaxLevel - 1)

----------------------------------------------------------------------------
(* Error values returned by the index and the facade *)

OK == "nil"
ErrDuplicateKey == "DuplicateKey"
ErrNotFound == "NotFound"
ErrOutOfRange == "OutOfRange"
ErrAddFailed == "AddFailed"
ErrDetachedRanker == "rankPtr = nil"

----------------------------------------------------------------------------
(* Ranker: RankerId, Value, UpdateTime and rankPtr, the back-reference to  *)
(* the RankBase ("rb") or nil.  kind is the dynamic type an element has    *)
(* when it is held as an interface value (skiplist.ISkiplistElement,       *)
(* IRanker): *Ranker[K, V], or none for the nil interface.                 *)

PtrNil == "nil"
PtrRb == "rb"

KindRanker == "*Ranker"
KindNil == "nil"

NoElem == [RankerId |-> 0, Value |-> 0, UpdateTime |-> 0, rankPtr |-> PtrNil,
           kind |-> KindNil]

(* The rankers a caller constructs: rankPtr is not set.                    *)
Rankers == [RankerId : Keys, Value : Values, UpdateTime : Times,
            rankPtr : {PtrNil}, kind : {KindRanker}]

(* e.rankPtr = rb *)
SetRankPtr(e) == [e EXCEPT !.rankPtr = PtrRb]

NoValue == 0

(* A plausible slip in Less: the tie on Value is broken by the later      *)
(* UpdateTime instead of the earlier one.                                  *)
LessLaterFirst(r, i) ==
    IF r.Value > i.Value THEN TRUE
    ELSE IF r.Value < i.Value THEN FALSE
    ELSE r.UpdateTime > i.UpdateTime

(* A plausible slip in Less: >= written for > in the first comparison, so *)
(* that entries of equal Value are each Less than the other.               *)
LessOrEqualValue(r, i) ==
    IF r.Value >= i.Value THEN TRUE
    ELSE IF r.Value < i.Value THEN FALSE
    ELSE r.UpdateTime < i.UpdateTime

(* Ranker.Less's type assertion on i: Less panics when i is not a          *)
(* *Ranker[K, V].                                                          *)
LessPanics(r, i) == i.kind # KindRanker

(* Ranker.Less: higher Value first; among equal Values the earlier        *)
(* UpdateTime first.                                                       *)
Less(r, i) ==
    IF r.Value > i.Value THEN TRUE
    ELSE IF r.Value < i.Value THEN FALSE
    ELSE r.UpdateTime < i.UpdateTime

----------------------------------------------------------------------------
(* The ordered index: a skip list with spans.  Node ids are the keys, the  *)
(* head sentinel is node 0.  span[x][i] is the number of positions the     *)
(* level-i forward pointer of x skips (to the end of the list when the     *)
(* pointer is Nil).                                                        *)

Header == 0
Nil == -1
Nodes == {Header} \cup Keys

SlNew ==
    [ forward |-> [n \in Nodes |-> [i \in Levels |-> Nil]],
      span    |-> [n \in Nodes |-> [i \in Levels |-> 0]],
      elem    |-> [k \in Keys |-> NoElem],
      lvl     |-> [n \in Nodes |-> IF n = Header THEN MaxLevel ELSE 0],
      level   |-> 1,
      length  |-> 0 ]

SlHas(sl, k) == k \in Keys /\ sl.elem[k] # NoElem

SlKeys(sl) == {k \in Keys : SlHas(sl, k)}

(* Position of node n on the level-0 chain (0 for the head). *)
RECURSIVE SlPosFrom(_, _, _, _)
SlPosFrom(sl, x, n, c) ==
    IF x = n THEN c
    ELSE IF x = Nil \/ c > MaxKey THEN 0
    ELSE SlPosFrom(sl, sl.forward[x][0], n, c + 1)

SlPosOf(sl, n) == SlPosFrom(sl, Header, n, 0)

(* The nodes a search for a new element e walks past.  Elements that       *)
(* compare equal to e (neither Less than the other) are walked past only   *)
(* when tieAfter holds.                                                    *)
SlPastNew(sl, e, tieAfter) ==
    {n \in SlKeys(sl) :
        \/ Less(sl.elem[n], e)
        \/ (tieAfter /\ ~Less(e, sl.elem[n]))}

(* The nodes a search for the stored element of key k walks past: those    *)
(* ordered before it; among elements comparing equal, those standing      *)
(* before it in the list.                                                  *)
SlPastKeyAt(sl, k, pos) ==
    {n \in SlKeys(sl) \ {k} :
        \/ Less(sl.elem[n], sl.elem[k])
        \/ /\ ~Less(sl.elem[k], sl.elem[n])
           /\ SlPosOf(sl, n) < pos}

SlPastKey(sl, k) == SlPastKeyAt(sl, k, SlPosOf(sl, k))

(* Move forward on level i from x while the next node is in past,          *)
(* accumulating the spans crossed.                                         *)
RECURSIVE SlWalk(_, _, _, _, _)
SlWalk(sl, x, i, r, past) ==
    LET f == sl.forward[x][i] IN
    IF f # Nil /\ f \in past
    THEN SlWalk(sl, f, i, r + sl.span[x][i], past)
    ELSE [x |-> x, r |-> r]

(* Top-down search: update[i] is the last node visited on level i and      *)
(* rank[i] the number of positions crossed to reach it.                    *)
RECURSIVE SlDescend(_, _, _, _, _, _)
RECURSIVE SlDescendFrom(_, _, _, _, _)
SlDescend(sl, i, x, r, past, acc) ==
    SlDescendFrom(sl, i, past, acc, SlWalk(sl, x, i, r, past))

SlDescendFrom(sl, i, past, acc, w) ==
    IF i = 0
    THEN [update |-> [acc.update EXCEPT ![i] = w.x],
          rank   |-> [acc.rank EXCEPT ![i] = w.r]]
    ELSE SlDescend(sl, i - 1, w.x, w.r, past,
                   [update |-> [acc.update EXCEPT ![i] = w.x],
                    rank   |-> [acc.rank EXCEPT ![i] = w.r]])

SlSearch(sl, past) ==
    SlDescend(sl, sl.level - 1, Header, 0, past,
              [update |-> [i \in Levels |-> Header], rank |-> [i \in Levels |-> 0]])

Max(a, b) == IF a > b THEN a ELSE b

(* Splice element e with lvl levels into the list, s being the result of *)
(* the search for its place.                                               *)
SlSplice(sl, e, lvl, s) ==
    LET k == e.RankerId
        newLevel == Max(sl.level, lvl)
        span1(n, i) == IF n = Header /\ i >= sl.level /\ i < lvl
                       THEN sl.length ELSE sl.span[n][i]
    IN [ forward |->
           [n \in Nodes |-> [i \in Levels |->
              IF n = k
              THEN (IF i < lvl THEN sl.forward[s.update[i]][i] ELSE Nil)
              ELSE IF i < lvl /\ n = s.update[i] THEN k
              ELSE sl.forward[n][i]]],
         span |->
           [n \in Nodes |-> [i \in Levels |->
              IF n = k
              THEN (IF i < lvl
                    THEN span1(s.update[i], i) - (s.rank[0] - s.rank[i])
                    ELSE 0)
              ELSE IF i < lvl /\ n = s.update[i]
              THEN (s.rank[0] - s.rank[i]) + 1
              ELSE IF i >= lvl /\ i < newLevel /\ n = s.update[i]
              THEN span1(n, i) + 1
              ELSE span1(n, i)]],
         elem   |-> [sl.elem EXCEPT ![k] = e],
         lvl    |-> [sl.lvl EXCEPT ![k] = lvl],
         level  |-> newLevel,
         length |-> sl.length + 1 ]

SlInsert(sl, e, lvl, tieAfter) ==
    SlSplice(sl, e, lvl, SlSearch(sl, SlPastNew(sl, e, tieAfter)))

(* insert(element): DuplicateKey when the key is already present. *)
SlAdd(sl, e, lvl, tieAfter) ==
    IF SlHas(sl, e.RankerId)
    THEN [sl |-> sl, err |-> ErrDuplicateKey]
    ELSE [sl |-> SlInsert(sl, e, lvl, tieAfter), err |-> OK]

(* The list level after a delete: lowered while the head's top forward     *)
(* pointer is Nil.                                                         *)
RECURSIVE SlShrink(_, _)
SlShrink(fwd, level) ==
    IF level > 1 /\ fwd[Header][level - 1] = Nil
    THEN SlShrink(fwd, level - 1)
    ELSE level

(* A plausible slip in the unsplice: only the level-0 chain is relinked.   *)
SlUnlinkForwardBottomOnly(sl, k, s) ==
    [n \in Nodes |-> [i \in Levels |->
        IF n = k THEN Nil
        ELSE IF i = 0 /\ n = s.update[i] /\ sl.forward[n][i] = k
        THEN sl.forward[k][i]
        ELSE sl.forward[n][i]]]

(* The forward pointers after the node of key k is unspliced, s being the *)
(* result of the search for it.                                            *)
SlUnlinkForward(sl, k, s) ==
    [n \in Nodes |-> [i \in Levels |->
        IF n = k THEN Nil
        ELSE IF i < sl.level /\ n = s.update[i] /\ sl.forward[n][i] = k
        THEN sl.forward[k][i]
        ELSE sl.forward[n][i]]]

(* A plausible slip in the unsplice: the span of a node that passes over   *)
(* the deleted node on a level the deleted node is not linked at is left   *)
(* as it was.                                                              *)
SlUnspliceSpanKept(sl, k, s, fwd, newLevel) ==
       [ forward |-> fwd,
         span |->
           [n \in Nodes |-> [i \in Levels |->
              IF n = k THEN 0
              ELSE IF n = Header /\ i >= newLevel THEN 0
              ELSE IF i < sl.level /\ n = s.update[i] /\ sl.forward[n][i] = k
              THEN sl.span[n][i] + sl.span[k][i] - 1
              ELSE sl.span[n][i]]],
         elem   |-> [sl.elem EXCEPT ![k] = NoElem],
         lvl    |-> [sl.lvl EXCEPT ![k] = 0],
         level  |-> newLevel,
         length |-> sl.length - 1 ]

(* Unsplice the node of key k from every level. *)
SlUnsplice(sl, k, s, fwd, newLevel) ==
       [ forward |-> fwd,
         span |->
           [n \in Nodes |-> [i \in Levels |->
              IF n = k THEN 0
              ELSE IF n = Header /\ i >= newLevel THEN 0
              ELSE IF i < sl.level /\ n = s.update[i]
              THEN (IF sl.forward[n][i] = k
                    THEN sl.span[n][i] + sl.span[k][i] - 1
                    ELSE sl.span[n][i] - 1)
              ELSE sl.span[n][i]]],
         elem   |-> [sl.elem EXCEPT ![k] = NoElem],
         lvl    |-> [sl.lvl EXCEPT ![k] = 0],
         level  |-> newLevel,
         length |-> sl.length - 1 ]

SlUnlinkAt(sl, k, s, fwd) == SlUnsplice(sl, k, s, fwd, SlShrink(fwd, sl.level))

SlUnlinkWith(sl, k, s) == SlUnlinkAt(sl, k, s, SlUnlinkForward(sl, k, s))

SlUnlink(sl, k) == SlUnlinkWith(sl, k, SlSearch(sl, SlPastKey(sl, k)))

(* delete_by_key(key): NotFound when absent. *)
SlDeleteByKey(sl, k) ==
    IF ~SlHas(sl, k)
    THEN [sl |-> sl, err |-> ErrNotFound]
    ELSE [sl |-> SlUnlink(sl, k), err |-> OK]

SlRankFound(k, s) ==
    IF s.update[0] = k
    THEN [ret |-> s.rank[0], err |-> OK]
    ELSE [ret |-> 0, err |-> ErrNotFound]

(* rank_by_key(key): the spans summed by one top-down search that stops    *)
(* at the node of key k.                                                   *)
SlGetRankByKey(sl, k) ==
    IF ~SlHas(sl, k)
    THEN [ret |-> 0, err |-> ErrNotFound]
    ELSE SlRankFound(k, SlSearch(sl, SlPastKey(sl, k) \cup {k}))

(* reverse_rank_by_key(key): count - rank + 1. *)
SlReverseOf(sl, r) ==
    IF r.err # OK THEN r
    ELSE [ret |-> sl.length - r.ret + 1, err |-> OK]

SlGetReverseRankByKey(sl, k) == SlReverseOf(sl, SlGetRankByKey(sl, k))

(* A plausible slip in the descent by rank: every forward step is counted  *)
(* as one position, whatever the span of the pointer followed.             *)
RECURSIVE SlWalkRankHops(_, _, _, _, _)
SlWalkRankHops(sl, x, i, traversed, rank) ==
    LET f == sl.forward[x][i] IN
    IF f # Nil /\ traversed + 1 <= rank
    THEN SlWalkRankHops(sl, f, i, traversed + 1, rank)
    ELSE IF traversed = rank \/ i = 0 THEN [x |-> x, r |-> traversed]
    ELSE SlWalkRankHops(sl, x, i - 1, traversed, rank)

(* Span-guided descent to the node at 1-based position rank. *)
RECURSIVE SlWalkRank(_, _, _, _, _)
SlWalkRank(sl, x, i, traversed, rank) ==
    LET f == sl.forward[x][i] IN
    IF f # Nil /\ traversed + sl.span[x][i] <= rank
    THEN SlWalkRank(sl, f, i, traversed + sl.span[x][i], rank)
    ELSE IF traversed = rank \/ i = 0 THEN [x |-> x, r |-> traversed]
    ELSE SlWalkRank(sl, x, i - 1, traversed, rank)

SlNodeFound(w, rank) == IF w.r = rank /\ w.x # Header THEN w.x ELSE Nil

SlNodeByRank(sl, rank) ==
    SlNodeFound(SlWalkRank(sl, Header, sl.level - 1, 0, rank), rank)

SlElemOf(sl, n) ==
    IF n = Nil THEN [ret |-> NoElem, err |-> ErrOutOfRange]
    ELSE [ret |-> sl.elem[n], err |-> OK]

(* element_by_rank(rank): OutOfRange when rank < 1 or rank > count. *)
SlGetElementByRank(sl, rank) ==
    IF rank < 1 \/ rank > sl.length
    THEN [ret |-> NoElem, err |-> ErrOutOfRange]
    ELSE SlElemOf(sl, SlNodeByRank(sl, rank))

(* The elements of at most n nodes on the level-0 chain, starting at x. *)
RECURSIVE SlTake(_, _, _)
SlTake(sl, x, n) ==
    IF n = 0 \/ x = Nil THEN <<>>
    ELSE <<sl.elem[x]>> \o SlTake(sl, sl.forward[x][0], n - 1)

(* range_by_rank(start, end): OutOfRange when start < 1 or start > end;    *)
(* end is clamped to count; empty when start > count.                      *)
SlGetRange(sl, start, end) ==
    IF start < 1 \/ start > end
    THEN [ret |-> <<>>, err |-> ErrOutOfRange]
    ELSE IF start > sl.length
    THEN [ret |-> <<>>, err |-> OK]
    ELSE LET e2 == IF end > sl.length THEN sl.length ELSE end
         IN [ret |-> SlTake(sl, SlNodeByRank(sl, start), e2 - start + 1),
             err |-> OK]

SlGetElementsCount(sl) == sl.length

SlGetElementByKey(sl, k) ==
    IF SlHas(sl, k)
    THEN [ret |-> sl.elem[k], err |-> OK]
    ELSE [ret |-> NoElem, err |-> ErrNotFound]

----------------------------------------------------------------------------
(* The ranking facade RankBase: rankMain (the ordered index) and dict.     *)

NewRankDict == [k \in Keys |-> NoValue]

(* A plausible slip in AddRanker: the deferred store into dict does not    *)
(* look at err.                                                            *)
AddRankerDeferAlways(d, e, r) ==
    [rankMain |-> r.sl,
     dict     |-> [d EXCEPT ![e.RankerId] = e.Value],
     err      |-> r.err,
     e        |-> e]

(* AddRanker's deferred function: e.Value is stored in dict when           *)
(* err == nil.  r is what rankMain.Add(e) returned; e is the ranker as it  *)
(* is after the call.                                                      *)
AddRankerDefer(d, e, r) ==
    [rankMain |-> r.sl,
     dict     |-> IF r.err = OK THEN [d EXCEPT ![e.RankerId] = e.Value] ELSE d,
     err      |-> r.err,
     e        |-> e]

(* AddRanker with e.rankPtr = rb already done: return rb.rankMain.Add(e),  *)
(* then the deferred function.                                             *)
AddRankerAdd(rm, d, e, lvl, tieAfter) ==
    AddRankerDefer(d, e, SlAdd(rm, e, lvl, tieAfter))

(* AddRanker: e.rankPtr = rb, then the rest.                               *)
AddRankerOp(rm, d, e, lvl, tieAfter) ==
    AddRankerAdd(rm, d, SetRankPtr(e), lvl, tieAfter)

(* RemoveRanker's deferred function: the key is deleted from dict when     *)
(* err == nil.  r is what rankMain.DeleteByKey(e.Key()) returned.          *)
RemoveRankerDefer(d, k, r) ==
    [rankMain |-> r.sl,
     dict     |-> IF r.err = OK THEN [d EXCEPT ![k] = NoValue] ELSE d,
     err      |-> r.err]

RemoveRankerOp(rm, d, k) == RemoveRankerDefer(d, k, SlDeleteByKey(rm, k))

(* RemoveRankerByKey's deferred function: the key is deleted from dict     *)
(* when err != nil.  r is what rankMain.DeleteByKey(k) returned.           *)
RemoveRankerByKeyDefer(d, k, r) ==
    [rankMain |-> r.sl,
     dict     |-> IF r.err # OK THEN [d EXCEPT ![k] = NoValue] ELSE d,
     err      |-> r.err]

RemoveRankerByKeyOp(rm, d, k) ==
    RemoveRankerByKeyDefer(d, k, SlDeleteByKey(rm, k))

(* What rankMain.Add(newData) returns inside UpdateRankerData; addFails:   *)
(* the call returns an error.                                              *)
UpdateAdd(sl, newData, lvl, tieAfter, addFails) ==
    IF addFails THEN [sl |-> sl, err |-> ErrAddFailed]
    ELSE SlAdd(sl, newData, lvl, tieAfter)

(* A plausible slip in UpdateRankerData: dict is not brought up to date    *)
(* (the facade as it was before it kept dict).                             *)
UpdateRankerDataDeferNoStore(d, newData, r2) ==
    [rankMain |-> r2.sl, dict |-> d, err |-> r2.err, e |-> newData]

(* UpdateRankerData's deferred function: the new Value is stored in dict   *)
(* when err == nil.  r2 is what rankMain.Add(newData) returned; newData is *)
(* the ranker as it is after the call.                                     *)
UpdateRankerDataDefer(d, newData, r2) ==
    [rankMain |-> r2.sl,
     dict     |-> IF r2.err = OK
                  THEN [d EXCEPT ![newData.RankerId] = newData.Value] ELSE d,
     err      |-> r2.err,
     e        |-> newData]

(* UpdateRankerData once the key is deleted: newData.rankPtr = rb, then   *)
(* rankMain.Add(newData) and the deferred function.                        *)
UpdateRankerDataReinsert(sl, d, newData, lvl, tieAfter, addFails) ==
    UpdateRankerDataDefer(d, newData,
                          UpdateAdd(sl, newData, lvl, tieAfter, addFails))

(* A plausible slip in UpdateRankerData: newData.rankPtr is not set (the   *)
(* update as it was before line 100 was added).                            *)
UpdateRankerDataAfterDeleteNoRankPtr(rm, d, newData, lvl, tieAfter, addFails, r1) ==
    IF r1.err # OK
    THEN [rankMain |-> rm, dict |-> d, err |-> r1.err, e |-> newData]
    ELSE UpdateRankerDataReinsert(r1.sl, d, newData, lvl, tieAfter, addFails)

(* A plausible slip in UpdateRankerData: the error of DeleteByKey is not    *)
(* looked at, so that a key that is not held is inserted.                  *)
UpdateRankerDataAfterDeleteUpsert(rm, d, newData, lvl, tieAfter, addFails, r1) ==
    UpdateRankerDataReinsert(r1.sl, d, SetRankPtr(newData), lvl, tieAfter,
                             addFails)

(* UpdateRankerData after rankMain.DeleteByKey(newData.Key()) returned r1: *)
(* its error is returned at once; otherwise the reinsert.                  *)
UpdateRankerDataAfterDelete(rm, d, newData, lvl, tieAfter, addFails, r1) ==
    IF r1.err # OK
    THEN [rankMain |-> rm, dict |-> d, err |-> r1.err, e |-> newData]
    ELSE UpdateRankerDataReinsert(r1.sl, d, SetRankPtr(newData), lvl, tieAfter,
                                  addFails)

UpdateRankerDataOp(rm, d, newData, lvl, tieAfter, addFails) ==
    UpdateRankerDataAfterDelete(rm, d, newData, lvl, tieAfter, addFails,
                                SlDeleteByKey(rm, newData.RankerId))

(* A plausible slip in GetRank: the error of GetRankByKey is dropped.       *)
GetRankErrDropped(rm, rankerKey) ==
    [ret |-> SlGetRankByKey(rm, rankerKey).ret, err |-> OK]

GetRank(rm, rankerKey) == SlGetRankByKey(rm, rankerKey)

(* A plausible slip in GetReverseRank: it delegates to GetRankByKey.       *)
GetReverseRankForward(rm, rankerKey) == SlGetRankByKey(rm, rankerKey)

GetReverseRank(rm, rankerKey) == SlGetReverseRankByKey(rm, rankerKey)

(* A plausible slip in Range: an endAt beyond the count is refused         *)
(* instead of being left to GetRange, which clamps it.                     *)
RangeEndChecked(rm, startAt, endAt) ==
    IF endAt > SlGetElementsCount(rm)
    THEN [ret |-> <<>>, err |-> ErrOutOfRange]
    ELSE SlGetRange(rm, startAt, endAt)

(* A plausible slip in Range: a startAt below 1 is raised to 1 before      *)
(* GetRange is called.                                                     *)
RangeStartFloored(rm, startAt, endAt) ==
    SlGetRange(rm, IF startAt < 1 THEN 1 ELSE startAt, endAt)

Range(rm, startAt, endAt) == SlGetRange(rm, startAt, endAt)

GetAllRankers(rm) == Range(rm, 1, SlGetElementsCount(rm))

(* A plausible slip in GetRankerDataByRank: a rank beyond the count is     *)
(* lowered to the count, as Range does with endAt.                         *)
GetRankerDataByRankClamped(rm, rank) ==
    SlGetElementByRank(rm, IF rank > SlGetElementsCount(rm)
                           THEN SlGetElementsCount(rm) ELSE rank)

(* A plausible slip in GetRankerDataByRank: the rank is taken 0-based.     *)
GetRankerDataByRankOffByOne(rm, rank) == SlGetElementByRank(rm, rank + 1)

GetRankerDataByRank(rm, rank) == SlGetElementByRank(rm, rank)

(* A plausible slip in GetRankerDataByKey, written after                   *)
(* GetRankerDataByRank: the call to GetElementByRank is left in.           *)
GetRankerDataByKeyAsRank(rm, rankerKey) == SlGetElementByRank(rm, rankerKey)

GetRankerDataByKey(rm, rankerKey) == SlGetElementByKey(rm, rankerKey)

Count(rm) == SlGetElementsCount(rm)

(* Ranker.GetRank, the rank a ranker r reports of itself: an error when    *)
(* r.rankPtr is nil, otherwise r.rankPtr.GetRank(r.Key()); rm is the index *)
(* of the RankBase that rankPtr refers to.                                 *)
RankerGetRank(r, rm) ==
    IF r.rankPtr = PtrNil THEN [ret |-> 0, err |-> ErrDetachedRanker]
    ELSE GetRank(rm, r.RankerId)

(* Range panics when an element GetRange returned is not an IRanker[K];    *)
(* after an error of GetRange it has returned already.                     *)
RangePanics(rm, startAt, endAt) ==
    \E nds \in {SlGetRange(rm, startAt, endAt)} :
        /\ nds.err = OK
        /\ \E i \in 1..Len(nds.ret) : nds.ret[i].kind # KindRanker

(* GetRankerDataByRank panics when the element GetElementByRank returned   *)
(* is not a *Ranker[K, V]; after an error it has returned already.         *)
GetRankerDataByRankPanics(rm, rank) ==
    \E nd \in {SlGetElementByRank(rm, rank)} :
        nd.err = OK /\ nd.ret.kind # KindRanker

(* A plausible slip in GetRankerDataByKey: the type assertion is made      *)
(* before err is looked at.                                                *)
GetRankerDataByKeyPanicsErrLate(rm, rankerKey) ==
    \E nd \in {SlGetElementByKey(rm, rankerKey)} : nd.ret.kind # KindRanker

(* GetRankerDataByKey panics when the element GetElementByKey returned is  *)
(* not a *Ranker[K, V]; after an error it has returned already.            *)
GetRankerDataByKeyPanics(rm, rankerKey) ==
    \E nd \in {SlGetElementByKey(rm, rankerKey)} :
        nd.err = OK /\ nd.ret.kind # KindRanker

----------------------------------------------------------------------------
(* Package timer (src/timer/timer.go): Timer.triggers maps a second to    *)
(* the triggers registered for it, in registration order.                  *)
(*                                                                         *)
(* A time string "2006-01-02 15:04:05" is kept as <<minute, second>>; the  *)
(* strings used are well formed (those that time.Format produces), so the  *)
(* panics on a parse error are not reached.                                *)

TimeStrings == {<<0, 59>>, <<1, 0>>}

(* time.ParseInLocation(...).Unix(): the second a time string names.       *)
ParseInLocation(at) == at[1] * 60 + at[2]

Seconds == {ParseInLocation(at) : at \in TimeStrings}

(* What the Fun of a trigger does when it is called: "print" leaves the    *)
(* timer alone (as the functions of TimerTestCode), "push" registers a     *)
(* printing trigger for the time string in Param.                          *)
NoParam == <<>>
Funs == {[Fun |-> "print", Param |-> NoParam]} \cup
        {[Fun |-> "push", Param |-> at] : at \in TimeStrings}

(* A Trigger as the caller builds it (Now not set); id, the number of its  *)
(* registration, is kept for the properties.                               *)
NewTrigger(f, id) == [Fun |-> f.Fun, Param |-> f.Param, Now |-> 0, id |-> id]

NewTimer == [sec \in Seconds |-> <<>>]

(* PushTimerTrigger(at, trigger): trigger.Now is set and the trigger is    *)
(* appended to the triggers of its second.                                 *)
PushTimerTriggerOp(t, at, trigger) ==
    [t EXCEPT ![ParseInLocation(at)] =
        Append(@, [trigger EXCEPT !.Now = ParseInLocation(at)])]

(* trigger.Fun(trigger.Now, trigger.Param), st being the timer, the ids    *)
(* fired so far and the number of triggers registered so far.              *)
CallFun(st, trigger) ==
    IF trigger.Fun = "push"
    THEN [triggers |-> PushTimerTriggerOp(st.triggers, trigger.Param,
                          NewTrigger([Fun |-> "print", Param |-> NoParam],
                                     st.pushed + 1)),
          fired    |-> Append(st.fired, trigger.id),
          pushed   |-> st.pushed + 1]
    ELSE [st EXCEPT !.fired = Append(@, trigger.id)]

(* for _, trigger := range ts: the functions of ts[i..] are called in      *)
(* order; ts is the slice read before the loop.                            *)
RECURSIVE TriggerLoop(_, _, _)
TriggerLoop(st, ts, i) ==
    IF i > Len(ts) THEN st
    ELSE TriggerLoop(CallFun(st, ts[i]), ts, i + 1)

(* A plausible slip in Trigger: the triggers of the second are not         *)
(* deleted after they were called.                                         *)
TriggerDeleteMissing(st, sec) == st

(* delete(t.triggers, tt.Unix()) *)
TriggerDelete(st, sec) == [st EXCEPT !.triggers[sec] = <<>>]

(* Trigger(now) once the triggers ts of the second were found.             *)
TriggerFound(st, sec, ts) == TriggerDelete(TriggerLoop(st, ts, 1), sec)

(* Trigger(now): nothing when no trigger is registered for the second.     *)
TriggerOp(st, now) ==
    IF st.triggers[ParseInLocation(now)] = <<>> THEN st
    ELSE TriggerFound(st, ParseInLocation(now),
                      st.triggers[ParseInLocation(now)])

NoTLast == [op |-> "none", sec |-> 0]

----------------------------------------------------------------------------
(* sync.WaitGroup (src/wg/sync/waitgroup.go).  state is the 64-bit state   *)
(* word, kept as its two halves: v, the counter of its high 32 bits, and   *)
(* w, the waiter count of its low 32 bits (the bounds keep both far from   *)
(* the width of their half).  sema is the semaphore.                       *)
(*                                                                         *)
(* The main goroutine calls Add(1) before it starts each task; a task      *)
(* calls Done when it finishes; waiters call Wait.  Each goroutine is at a *)
(* pc and holds in v and w what it last read from the state word.          *)

Tasks == 1..MaxTasks
Waiters == 1..MaxWaiters

NoPanic == "none"
PanicNegative == "sync: negative WaitGroup counter"
PanicMisuse == "sync: WaitGroup misuse: Add called concurrently with Wait"
PanicReused == "sync: WaitGroup is reused before previous Wait has returned"

NewState == [v |-> 0, w |-> 0]

NewGoroutine == [pc |-> "idle", v |-> 0, w |-> 0]

(* atomic.AddUint64(statep, uint64(delta)<<32) *)
AddUint64(st, delta) == [st EXCEPT !.v = @ + delta]

(* A plausible slip in Add: the waiters are released whenever there are    *)
(* waiters, whether or not the counter has come down to zero.              *)
AddReturnsNoCounter(v, w) == w = 0

(* Add returns after the two misuse checks when the counter is still       *)
(* positive or nobody waits.                                               *)
AddReturns(v, w) == v > 0 \/ w = 0

(* The panic of Add(delta) after its atomic add left v and w in the state  *)
(* word, NoPanic when it goes on.                                          *)
AddPanic(v, w, delta) ==
    IF v < 0 THEN PanicNegative
    ELSE IF w # 0 /\ delta > 0 /\ v = delta THEN PanicMisuse
    ELSE NoPanic

(* History of the wait group kept for the properties.  reuse: Add was     *)
(* called after a Done had brought the counter to zero with goroutines     *)
(* blocked in Wait and before all of them had returned.  released: the     *)
(* calls of runtime_Semrelease so far.                                     *)
NoWgHist == [reuse |-> FALSE, released |-> 0]

----------------------------------------------------------------------------
(* Mgr, the timeout version (src/wg/wg.go:11-68).  mw is the counter of    *)
(* m.w; fc[i] is the goroutine the i-th Add starts: where it is, its       *)
(* realFcId, whether its time limit has expired, whether it had expired    *)
(* when f returned, and the outcomes it has logged.  mgrMain is WgTest:    *)
(* the Adds it has made and whether it is in Wait.                         *)

Fcs == 1..MaxFc

LogOk == "ok"
LogNotOk == "not ok"

NewFc == [pc |-> "none", id |-> 0, expired |-> FALSE, late |-> FALSE,
          out |-> <<>>]

NewMgrMain == [pc |-> "add", i |-> 0]

(* select: both channel operands have been evaluated, so f has returned    *)
(* and its channel holds a value; ctx.Done() is ready when the time limit  *)
(* has expired.  One of the ready cases is chosen, either when both are.   *)
SelectCases(expired) == IF expired THEN {LogNotOk, LogOk} ELSE {LogOk}

(* A plausible slip: Wait does not wait for the counter.                   *)
MgrWaitReturnsAtOnce(counter) == TRUE

(* m.w.Wait() returns when the counter of m.w is zero.                     *)
MgrWaitReturns(counter) == counter = 0

----------------------------------------------------------------------------
(* Work, the fixed version, and ContextTest (src/unnamed/part_003:9-46).   *)
(* work[i] is the i-th goroutine of ContextTest with its context, the      *)
(* channel c of its call of Work and the goroutine Work starts:            *)
(*   ctx     "live", or the error it was cancelled with;                   *)
(*   c       "open" or "closed" (c has no buffer);                         *)
(*   caller  where the goroutine of ContextTest is: before WithTimeout,    *)
(*           in the select of Work, returned from Work, or past cf();      *)
(*   worker  where the goroutine of Work is: asleep, at its select, at     *)
(*           the send of the default branch, finished either way, or in    *)
(*           the panic of a send on a closed channel.                      *)

Works == 1..MaxWork

CtxLive == "live"
DeadlineExceeded == "context deadline exceeded"
Canceled == "context canceled"

ChanOpen == "open"
ChanClosed == "closed"

NewWork == [ctx |-> CtxLive, c |-> ChanOpen, caller |-> "start",
            worker |-> "none"]

(* The select of the goroutine of Work: the case of ctx.Done() when ctx    *)
(* is done, else the default branch with its send.                         *)
WorkerSelectBranch(ctx) == IF ctx # CtxLive THEN "failed" ELSE "send"

----------------------------------------------------------------------------
(* Package context (src/unnamed/part_003:134-648): cancelCtx and timerCtx. *)
(* contexts[c] is the c-th context made by WithCancel or WithDeadline; 0   *)
(* stands for Background, which is never cancelled.                        *)
(*   kind      "none" until made, then "cancelCtx" or "timerCtx";          *)
(*   parent    the Context it was made from;                               *)
(*   err       c.err;                                                      *)
(*   done      c.done: "nil" until Done() is first called, "open", then    *)
(*             "closed", or "closedchan" when cancel found it nil;         *)
(*   children  c.children;                                                 *)
(*   timer     c.timer: "nil", "armed", or "fired" once its function runs; *)
(*   cfRemove  the removeFromParent its CancelFunc passes;                 *)
(*   removing, stopping: a cancel call on c has left cancelCtx.cancel's    *)
(*             locked section and its removeChild, or the timer's stop,    *)
(*             is still to come;                                           *)
(*   closes    how many times close(d) ran on the channel (history).       *)
(* The section of cancelCtx.cancel under c.mu, with the cancels of the     *)
(* children it makes while it holds the lock, is one step: every read and  *)
(* write of err and children is made under that mutex.                     *)

Ctxs == 1..MaxCtx
Background == 0

CtxErrNil == "<nil>"

NewCtx == [kind |-> "none", parent |-> Background, err |-> CtxErrNil,
           done |-> "nil", children |-> {}, timer |-> "nil",
           cfRemove |-> TRUE, removing |-> FALSE, stopping |-> FALSE,
           closes |-> 0]

NoCLast == [op |-> "none", c |-> Background, err |-> CtxErrNil]

(* c.Done(): the channel is made on the first call. *)
DoneLoad(cs, c) == [cs EXCEPT ![c].done = IF @ = "nil" THEN "open" ELSE @]

(* c.timer.Stop(); c.timer = nil, when c.timer is not nil. *)
TimerStop(cs, c) == [cs EXCEPT ![c].timer = "nil"]

(* removeChild(parent, child) *)
RemoveChild(cs, c) ==
    IF cs[c].parent = Background THEN cs
    ELSE [cs EXCEPT ![cs[c].parent].children = @ \ {c}]

RECURSIVE CancelLocked(_, _, _)
RECURSIVE CancelChildren(_, _, _)

(* child.cancel(false, err) as the parent calls it: for a timerCtx the     *)
(* timer is stopped as well.                                               *)
ChildCancel(cs, k, err) ==
    IF cs[k].kind = "timerCtx" THEN TimerStop(CancelLocked(cs, k, err), k)
    ELSE CancelLocked(cs, k, err)

(* A plausible slip: cancel forgets its children.                           *)
CancelChildrenNone(cs, kids, err) == cs

(* for child := range c.children { child.cancel(false, err) } *)
CancelChildren(cs, kids, err) ==
    IF kids = {} THEN cs
    ELSE CancelChildren(ChildCancel(cs, CHOOSE k \in kids : TRUE, err),
                        kids \ {CHOOSE k \in kids : TRUE}, err)

(* A plausible slip: cancel has no test of c.err and cancels again.        *)
CancelLockedAgain(cs, c, err) ==
    [CancelChildren(
        [cs EXCEPT ![c].err = err,
                   ![c].done = IF @ = "nil" THEN "closedchan" ELSE "closed",
                   ![c].closes = @ + (IF cs[c].done = "nil" THEN 0 ELSE 1)],
        cs[c].children, err)
     EXCEPT ![c].children = {}]

(* cancelCtx.cancel from c.mu.Lock() to c.mu.Unlock(). *)
CancelLocked(cs, c, err) ==
    IF cs[c].err # CtxErrNil THEN cs
    ELSE [CancelChildren(
            [cs EXCEPT ![c].err = err,
                       ![c].done = IF @ = "nil" THEN "closedchan" ELSE "closed",
                       ![c].closes = @ + (IF cs[c].done = "nil" THEN 0 ELSE 1)],
            cs[c].children, err)
          EXCEPT ![c].children = {}]

(* propagateCancel(parent, child) *)
PropagateCancel(cs, p, c) ==
    IF p = Background THEN cs
    ELSE IF cs[p].err # CtxErrNil
    THEN ChildCancel(DoneLoad(cs, p), c, cs[p].err)
    ELSE [DoneLoad(cs, p) EXCEPT ![p].children = @ \cup {c}]

(* The contexts made so far, and the next to be made. *)
Made(cs) == {c \in Ctxs : cs[c].kind # "none"}

NextCtx(cs) == Cardinality(Made(cs)) + 1

----------------------------------------------------------------------------
(* History kept for the properties.  last: the last call, its key and     *)
(* error, the ranker it placed in the index, and the rankPtr, after the    *)
(* call, of the ranker it was about (the one handed to AddRanker or        *)
(* UpdateRankerData, the one a remove took out of the index).  snap: the   *)
(* count and ranks before the last successful AddRanker.                   *)

NoLast == [op |-> "none", key |-> 0, err |-> OK, stored |-> NoElem,
           rankPtr |-> PtrNil]

NoSnap == [stage |-> "none", key |-> 0, count |-> 0, rank |-> [k \in Keys |-> 0]]

RanksOf(rm) == [k \in Keys |-> GetRank(rm, k).ret]

(* The level count of a new node is drawn only when a node is created.    *)
LevelChoices(rm, k) == IF SlHas(rm, k) THEN {1} ELSE 1..MaxLevel

UpdateLevelChoices(rm, k) == IF SlHas(rm, k) THEN 1..MaxLevel ELSE {1}

(* Where a new element lands among stored elements that compare equal to   *)
(* it is open: before them or after them.                                  *)
TieChoices(rm, e) ==
    IF \E n \in SlKeys(rm) \ {e.RankerId} :
          ~Less(rm.elem[n], e) /\ ~Less(e, rm.elem[n])
    THEN BOOLEAN ELSE {FALSE}

(* The ranker a call has placed in the index, NoElem when it placed none.  *)
Stored(e, err) == IF err = OK THEN e ELSE NoElem

(* plain: the entries held, kept as a plain sorted list with no levels and *)
(* no spans, next to the index.  A new entry is put where a scan from the  *)
(* front first meets an entry it does not go after.                        *)
RECURSIVE PlainPlace(_, _, _, _)
PlainPlace(seq, e, tieAfter, i) ==
    IF i <= Len(seq)
       /\ (Less(seq[i], e) \/ (tieAfter /\ ~Less(e, seq[i])))
    THEN PlainPlace(seq, e, tieAfter, i + 1)
    ELSE i

PlainHas(seq, k) == \E i \in 1..Len(seq) : seq[i].RankerId = k

PlainInsertAt(seq, e, i) ==
    SubSeq(seq, 1, i - 1) \o <<e>> \o SubSeq(seq, i, Len(seq))

PlainInsert(seq, e, tieAfter) ==
    IF PlainHas(seq, e.RankerId) THEN seq
    ELSE PlainInsertAt(seq, e, PlainPlace(seq, e, tieAfter, 1))

PlainDelete(seq, k) == SelectSeq(seq, LAMBDA x : x.RankerId # k)

(* The plain list after UpdateRankerData: nothing when the key is not in   *)
(* it; otherwise the old entry is taken out and the new one put in, unless *)
(* the reinsert is made to fail.                                           *)
PlainUpdate(seq, e, tieAfter, addFails) ==
    IF ~PlainHas(seq, e.RankerId) THEN seq
    ELSE IF addFails THEN PlainDelete(seq, e.RankerId)
    ELSE PlainInsert(PlainDelete(seq, e.RankerId), e, tieAfter)

Init ==
    /\ rankMain = SlNew
    /\ dict = NewRankDict
    /\ last = NoLast
    /\ snap = NoSnap
    /\ plain = <<>>
    /\ triggers = NewTimer
    /\ fired = <<>>
    /\ pushed = 0
    /\ tlast = NoTLast
    /\ state = NewState
    /\ sema = 0
    /\ added = 0
    /\ task = [i \in Tasks |-> NewGoroutine]
    /\ waiter = [j \in Waiters |-> NewGoroutine]
    /\ wgPanic = NoPanic
    /\ wgHist = NoWgHist
    /\ mw = 0
    /\ fc = [i \in Fcs |-> NewFc]
    /\ fcId = 0
    /\ mgrMain = NewMgrMain
    /\ work = [i \in Works |-> NewWork]
    /\ contexts = [c \in Ctxs |-> NewCtx]
    /\ clast = NoCLast

AddRanker ==
    \E e \in Rankers :
    \E lvl \in LevelChoices(rankMain, e.RankerId), tieAfter \in TieChoices(rankMain, e) :
        \E r \in {AddRankerOp(rankMain, dict, e, lvl, tieAfter)} :
           /\ rankMain' = r.rankMain
           /\ dict' = r.dict
           /\ last' = [op |-> "AddRanker", key |-> e.RankerId, err |-> r.err,
                       stored |-> Stored(r.e, r.err), rankPtr |-> r.e.rankPtr]
           /\ snap' = IF r.err = OK
                      THEN [stage |-> "added", key |-> e.RankerId,
                            count |-> Count(rankMain), rank |-> RanksOf(rankMain)]
                      ELSE NoSnap
           /\ plain' = PlainInsert(plain, SetRankPtr(e), tieAfter)
           /\ UNCHANGED notRankVars

SnapAfterRemove(k, err) ==
    IF err = OK /\ snap.stage = "added" /\ snap.key = k
    THEN [snap EXCEPT !.stage = "removed"]
    ELSE NoSnap

RemoveRanker ==
    \E k \in Keys :
        \E r \in {RemoveRankerOp(rankMain, dict, k)} :
           /\ rankMain' = r.rankMain
           /\ dict' = r.dict
           /\ last' = [op |-> "RemoveRanker", key |-> k, err |-> r.err,
                       stored |-> NoElem, rankPtr |-> rankMain.elem[k].rankPtr]
           /\ snap' = SnapAfterRemove(k, r.err)
           /\ plain' = PlainDelete(plain, k)
           /\ UNCHANGED notRankVars

RemoveRankerByKey ==
    \E k \in Keys :
        \E r \in {RemoveRankerByKeyOp(rankMain, dict, k)} :
           /\ rankMain' = r.rankMain
           /\ dict' = r.dict
           /\ last' = [op |-> "RemoveRankerByKey", key |-> k, err |-> r.err,
                       stored |-> NoElem, rankPtr |-> rankMain.elem[k].rankPtr]
           /\ snap' = SnapAfterRemove(k, r.err)
           /\ plain' = PlainDelete(plain, k)
           /\ UNCHANGED notRankVars

UpdateRankerData ==
    \E newData \in Rankers :
    \E lvl \in UpdateLevelChoices(rankMain, newData.RankerId),
       tieAfter \in TieChoices(rankMain, newData) :
        \E r \in {UpdateRankerDataOp(rankMain, dict, newData, lvl, tieAfter, FALSE)} :
           /\ rankMain' = r.rankMain
           /\ dict' = r.dict
           /\ last' = [op |-> "UpdateRankerData", key |-> newData.RankerId,
                       err |-> r.err, stored |-> Stored(r.e, r.err),
                       rankPtr |-> r.e.rankPtr]
           /\ snap' = NoSnap
           /\ plain' = PlainUpdate(plain, SetRankPtr(newData), tieAfter, FALSE)
           /\ UNCHANGED notRankVars

(* UpdateRankerData when the reinsert step (rankMain.Add) returns an error *)
UpdateRankerDataAddFails ==
    \E newData \in Rankers :
        \E r \in {UpdateRankerDataOp(rankMain, dict, newData, 1, FALSE, TRUE)} :
           /\ rankMain' = r.rankMain
           /\ dict' = r.dict
           /\ last' = [op |-> "UpdateRankerData", key |-> newData.RankerId,
                       err |-> r.err, stored |-> Stored(r.e, r.err),
                       rankPtr |-> r.e.rankPtr]
           /\ snap' = NoSnap
           /\ plain' = PlainUpdate(plain, SetRankPtr(newData), FALSE, TRUE)
           /\ UNCHANGED notRankVars

Next ==
    \/ AddRanker
    \/ RemoveRanker
    \/ RemoveRankerByKey
    \/ UpdateRankerData

Spec == Init /\ [][Next]_vars

NextFault ==
    \/ Next
    \/ UpdateRankerDataAddFails

SpecFault == Init /\ [][NextFault]_vars

----------------------------------------------------------------------------
(* The timer's operations.  pushed counts the triggers registered so far;  *)
(* callers register triggers while fewer than MaxPush are registered,      *)
(* functions register theirs whenever they are called.                     *)

TimerState == [triggers |-> triggers, fired |-> fired, pushed |-> pushed]

PushTimerTrigger ==
    /\ pushed < MaxPush
    /\ \E at \in TimeStrings, f \in Funs :
          /\ triggers' = PushTimerTriggerOp(triggers, at, NewTrigger(f, pushed + 1))
          /\ pushed' = pushed + 1
          /\ tlast' = [op |-> "PushTimerTrigger", sec |-> ParseInLocation(at)]
          /\ UNCHANGED fired
    /\ UNCHANGED notTimerVars

(* Loop: on a tick Trigger is called with the time of the tick.            *)
Trigger ==
    /\ \E now \in TimeStrings :
          \E st \in {TriggerOp(TimerState, now)} :
             /\ triggers' = st.triggers
             /\ fired' = st.fired
             /\ pushed' = st.pushed
             /\ tlast' = [op |-> "Trigger", sec |-> ParseInLocation(now)]
    /\ UNCHANGED notTimerVars

NextTimer ==
    \/ PushTimerTrigger
    \/ Trigger

SpecTimer == Init /\ [][NextTimer]_vars

----------------------------------------------------------------------------
(* The WaitGroup's goroutines, one action for each step between two        *)
(* accesses of the state word or the semaphore.  After a panic nothing     *)
(* runs.                                                                   *)

(* The main goroutine: wg.Add(1), then go task.  Every such Add happens    *)
(* before the first Wait is called.                                        *)
WgAdd ==
    /\ wgPanic = NoPanic
    /\ added < MaxTasks
    /\ \A j \in Waiters : waiter[j].pc = "idle"
    /\ \E st \in {AddUint64(state, 1)} :
          /\ state' = st
          /\ wgPanic' = AddPanic(st.v, st.w, 1)
    /\ added' = added + 1
    /\ task' = [task EXCEPT ![added + 1].pc = "running"]
    /\ UNCHANGED <<sema, waiter, wgHist>>
    /\ UNCHANGED notWgVars

(* Done, that is Add(-1), up to its return or to line 86: the atomic add   *)
(* and the checks on what it returned.                                     *)
DoneAdd(i) ==
    /\ wgPanic = NoPanic
    /\ task[i].pc = "running"
    /\ \E st \in {AddUint64(state, -1)} :
          /\ state' = st
          /\ wgPanic' = AddPanic(st.v, st.w, -1)
          /\ task' = [task EXCEPT ![i] =
                IF AddPanic(st.v, st.w, -1) # NoPanic
                THEN [pc |-> "panic", v |-> st.v, w |-> st.w]
                ELSE IF AddReturns(st.v, st.w)
                THEN [pc |-> "done", v |-> st.v, w |-> st.w]
                ELSE [pc |-> "check", v |-> st.v, w |-> st.w]]
    /\ UNCHANGED <<sema, added, waiter, wgHist>>
    /\ UNCHANGED notWgVars

(* if *statep != state { panic } *)
DoneCheck(i) ==
    /\ wgPanic = NoPanic
    /\ task[i].pc = "check"
    /\ IF state # [v |-> task[i].v, w |-> task[i].w]
       THEN /\ wgPanic' = PanicMisuse
            /\ task' = [task EXCEPT ![i].pc = "panic"]
       ELSE /\ wgPanic' = wgPanic
            /\ task' = [task EXCEPT ![i].pc = "reset"]
    /\ UNCHANGED <<state, sema, added, waiter, wgHist>>
    /\ UNCHANGED notWgVars

(* A plausible slip in Add: the waiters are released without the state    *)
(* word having been reset.                                                 *)
DoneResetSkipped(i) ==
    /\ wgPanic = NoPanic
    /\ task[i].pc = "reset"
    /\ state' = state
    /\ task' = [task EXCEPT ![i].pc = IF task[i].w # 0 THEN "release" ELSE "done"]
    /\ UNCHANGED <<sema, added, waiter, wgPanic, wgHist>>
    /\ UNCHANGED notWgVars

(* *statep = 0 *)
DoneReset(i) ==
    /\ wgPanic = NoPanic
    /\ task[i].pc = "reset"
    /\ state' = NewState
    /\ task' = [task EXCEPT ![i].pc = IF task[i].w # 0 THEN "release" ELSE "done"]
    /\ UNCHANGED <<sema, added, waiter, wgPanic, wgHist>>
    /\ UNCHANGED notWgVars

(* for ; w != 0; w-- { runtime_Semrelease(semap, false, 0) }: one turn.    *)
DoneRelease(i) ==
    /\ wgPanic = NoPanic
    /\ task[i].pc = "release"
    /\ sema' = sema + 1
    /\ task' = [task EXCEPT ![i].w = @ - 1,
                            ![i].pc = IF task[i].w - 1 # 0 THEN "release" ELSE "done"]
    /\ wgHist' = [wgHist EXCEPT !.released = @ + 1]
    /\ UNCHANGED <<state, added, waiter, wgPanic>>
    /\ UNCHANGED notWgVars

(* Wait, from its call or from a failed CompareAndSwap: the state word is  *)
(* loaded; Wait returns when the counter is 0.                             *)
WaitLoad(j) ==
    /\ wgPanic = NoPanic
    /\ waiter[j].pc \in {"idle", "load"}
    /\ waiter' = [waiter EXCEPT ![j] =
          IF state.v = 0
          THEN [pc |-> "returned", v |-> state.v, w |-> state.w]
          ELSE [pc |-> "cas", v |-> state.v, w |-> state.w]]
    /\ UNCHANGED <<state, sema, added, task, wgPanic, wgHist>>
    /\ UNCHANGED notWgVars

(* atomic.CompareAndSwapUint64(statep, state, state+1) *)
WaitCas(j) ==
    /\ wgPanic = NoPanic
    /\ waiter[j].pc = "cas"
    /\ IF state = [v |-> waiter[j].v, w |-> waiter[j].w]
       THEN /\ state' = [state EXCEPT !.w = @ + 1]
            /\ waiter' = [waiter EXCEPT ![j].pc = "sem"]
       ELSE /\ state' = state
            /\ waiter' = [waiter EXCEPT ![j].pc = "load"]
    /\ UNCHANGED <<sema, added, task, wgPanic, wgHist>>
    /\ UNCHANGED notWgVars

(* runtime_Semacquire(semap): blocks until the semaphore is positive.      *)
WaitAcquire(j) ==
    /\ wgPanic = NoPanic
    /\ waiter[j].pc = "sem"
    /\ sema > 0
    /\ sema' = sema - 1
    /\ waiter' = [waiter EXCEPT ![j].pc = "woken"]
    /\ UNCHANGED <<state, added, task, wgPanic, wgHist>>
    /\ UNCHANGED notWgVars

(* if *statep != 0 { panic }; return *)
WaitCheck(j) ==
    /\ wgPanic = NoPanic
    /\ waiter[j].pc = "woken"
    /\ IF state # NewState
       THEN /\ wgPanic' = PanicReused
            /\ waiter' = [waiter EXCEPT ![j].pc = "panic"]
       ELSE /\ wgPanic' = wgPanic
            /\ waiter' = [waiter EXCEPT ![j].pc = "returned"]
    /\ UNCHANGED <<state, sema, added, task, wgHist>>
    /\ UNCHANGED notWgVars

NextWg ==
    \/ WgAdd
    \/ \E i \in Tasks : DoneAdd(i)
    \/ \E i \in Tasks : DoneCheck(i)
    \/ \E i \in Tasks : DoneReset(i)
    \/ \E i \in Tasks : DoneRelease(i)
    \/ \E j \in Waiters : WaitLoad(j)
    \/ \E j \in Waiters : WaitCas(j)
    \/ \E j \in Waiters : WaitAcquire(j)
    \/ \E j \in Waiters : WaitCheck(j)

SpecWg == Init /\ [][NextWg]_vars

----------------------------------------------------------------------------
(* The wait group with Add called at any time, also while goroutines are   *)
(* in Wait.                                                                *)

(* A Done has brought the counter to zero with goroutines blocked in Wait  *)
(* and not all of them have returned: the Done is between its atomic add   *)
(* and its last Semrelease, or a released goroutine has not yet taken the  *)
(* semaphore or has not yet made its check of line 131.                    *)
Releasing ==
    \/ \E i \in Tasks : task[i].pc \in {"check", "reset", "release"}
    \/ \E j \in Waiters : waiter[j].pc = "woken"
    \/ sema > 0

(* The main goroutine: wg.Add(1), then go task, whatever the waiters do.   *)
WgAddAnyTime ==
    /\ wgPanic = NoPanic
    /\ added < MaxTasks
    /\ \E st \in {AddUint64(state, 1)} :
          /\ state' = st
          /\ wgPanic' = AddPanic(st.v, st.w, 1)
    /\ added' = added + 1
    /\ task' = [task EXCEPT ![added + 1].pc = "running"]
    /\ wgHist' = [wgHist EXCEPT !.reuse = @ \/ Releasing]
    /\ UNCHANGED <<sema, waiter>>
    /\ UNCHANGED notWgVars

NextWgReuse ==
    \/ WgAddAnyTime
    \/ \E i \in Tasks : DoneAdd(i)
    \/ \E i \in Tasks : DoneCheck(i)
    \/ \E i \in Tasks : DoneReset(i)
    \/ \E i \in Tasks : DoneRelease(i)
    \/ \E j \in Waiters : WaitLoad(j)
    \/ \E j \in Waiters : WaitCas(j)
    \/ \E j \in Waiters : WaitAcquire(j)
    \/ \E j \in Waiters : WaitCheck(j)

(* The scheduler runs every goroutine that can run: a Done that has made   *)
(* its atomic add goes on to its return, and a goroutine in Wait goes on   *)
(* whenever it is not blocked on the semaphore.  Nothing makes the main    *)
(* goroutine call Add, a task finish, or a goroutine call Wait.            *)
FairWg ==
    /\ \A i \in Tasks :
          /\ WF_vars(DoneCheck(i))
          /\ WF_vars(DoneReset(i))
          /\ WF_vars(DoneRelease(i))
    /\ \A j \in Waiters :
          /\ WF_vars(WaitCas(j))
          /\ WF_vars(WaitAcquire(j))
          /\ WF_vars(WaitCheck(j))

SpecWgReuse == Init /\ [][NextWgReuse]_vars /\ FairWg

----------------------------------------------------------------------------
(* Mgr: WgTest calls mgr.Add MaxFc times and then mgr.Wait.                *)

(* m.w.Add(1); go func() {...}() *)
MgrAdd ==
    /\ mgrMain.pc = "add"
    /\ mgrMain.i < MaxFc
    /\ mw' = mw + 1
    /\ fc' = [fc EXCEPT ![mgrMain.i + 1].pc = "start"]
    /\ mgrMain' = [pc |-> IF mgrMain.i + 1 = MaxFc THEN "wait" ELSE "add",
                   i |-> mgrMain.i + 1]
    /\ UNCHANGED fcId
    /\ UNCHANGED notMgrVars

(* ctx, cf := context.WithTimeout(...); realFcId := m.fcId.Add(1) *)
FcStart(i) ==
    /\ fc[i].pc = "start"
    /\ fcId' = fcId + 1
    /\ fc' = [fc EXCEPT ![i].pc = "call", ![i].id = fcId + 1]
    /\ UNCHANGED <<mw, mgrMain>>
    /\ UNCHANGED notMgrVars

(* The time limit of ctx runs out: ctx.Done() is closed.  It can happen    *)
(* from WithTimeout until cf is called.                                    *)
FcExpire(i) ==
    /\ fc[i].pc \in {"call", "select"}
    /\ ~fc[i].expired
    /\ fc' = [fc EXCEPT ![i].expired = TRUE]
    /\ UNCHANGED <<mw, fcId, mgrMain>>
    /\ UNCHANGED notMgrVars

(* The select statement evaluates f(): f runs to its end in this           *)
(* goroutine and returns a channel that holds a value.                     *)
FcCall(i) ==
    /\ fc[i].pc = "call"
    /\ fc' = [fc EXCEPT ![i].pc = "select", ![i].late = fc[i].expired]
    /\ UNCHANGED <<mw, fcId, mgrMain>>
    /\ UNCHANGED notMgrVars

(* select chooses a ready case and logs its outcome. *)
FcSelect(i) ==
    /\ fc[i].pc = "select"
    /\ \E c \in SelectCases(fc[i].expired) :
          fc' = [fc EXCEPT ![i].pc = "exit", ![i].out = Append(@, c)]
    /\ UNCHANGED <<mw, fcId, mgrMain>>
    /\ UNCHANGED notMgrVars

(* The deferred calls: cf(), then m.w.Done(). *)
FcExit(i) ==
    /\ fc[i].pc = "exit"
    /\ mw' = mw - 1
    /\ fc' = [fc EXCEPT ![i].pc = "done"]
    /\ UNCHANGED <<fcId, mgrMain>>
    /\ UNCHANGED notMgrVars

(* func (m *Mgr) Wait() { m.w.Wait() } *)
MgrWait ==
    /\ mgrMain.pc = "wait"
    /\ MgrWaitReturns(mw)
    /\ mgrMain' = [mgrMain EXCEPT !.pc = "finished"]
    /\ UNCHANGED <<mw, fc, fcId>>
    /\ UNCHANGED notMgrVars

NextMgr ==
    \/ MgrAdd
    \/ \E i \in Fcs : FcStart(i)
    \/ \E i \in Fcs : FcExpire(i)
    \/ \E i \in Fcs : FcCall(i)
    \/ \E i \in Fcs : FcSelect(i)
    \/ \E i \in Fcs : FcExit(i)
    \/ MgrWait

SpecMgr == Init /\ [][NextMgr]_vars

----------------------------------------------------------------------------
(* ContextTest and Work.                                                   *)

(* ctx, cf := context.WithTimeout(...); Work(ctx): c := make(chan), the    *)
(* goroutine is started and the caller comes to its select.                *)
WorkStart(i) ==
    /\ work[i].caller = "start"
    /\ work' = [work EXCEPT ![i].caller = "select", ![i].worker = "sleep"]
    /\ UNCHANGED notWorkVars

(* The time limit of ctx runs out. *)
WorkCtxDeadline(i) ==
    /\ work[i].caller # "start"
    /\ work[i].ctx = CtxLive
    /\ work' = [work EXCEPT ![i].ctx = DeadlineExceeded]
    /\ UNCHANGED notWorkVars

(* time.Sleep returns in the goroutine of Work. *)
WorkerWake(i) ==
    /\ work[i].worker = "sleep"
    /\ work' = [work EXCEPT ![i].worker = "select"]
    /\ UNCHANGED notWorkVars

(* select { case <-ctx.Done(): ... default: ... } up to the send. *)
WorkerSelect(i) ==
    /\ work[i].worker = "select"
    /\ work' = [work EXCEPT ![i].worker = WorkerSelectBranch(work[i].ctx)]
    /\ UNCHANGED notWorkVars

(* c <- struct{}{} meets the caller's case <-c: the worker logs its        *)
(* success and ends, the caller logs "Work ok" and returns.                *)
WorkerSendReceived(i) ==
    /\ work[i].worker = "send"
    /\ work[i].c = ChanOpen
    /\ work[i].caller = "select"
    /\ work' = [work EXCEPT ![i].worker = "finished", ![i].caller = "returned"]
    /\ UNCHANGED notWorkVars

(* c <- struct{}{} on the closed channel, whether c was closed before the  *)
(* send began or while it was blocked: panic.                              *)
WorkerSendClosed(i) ==
    /\ work[i].worker = "send"
    /\ work[i].c = ChanClosed
    /\ work' = [work EXCEPT ![i].worker = "panic"]
    /\ UNCHANGED notWorkVars

(* The caller's case <-ctx.Done(): log "Work not ok", close(c), return.    *)
WorkCallerDone(i) ==
    /\ work[i].caller = "select"
    /\ work[i].ctx # CtxLive
    /\ work' = [work EXCEPT ![i].c = ChanClosed, ![i].caller = "returned"]
    /\ UNCHANGED notWorkVars

(* The deferred cf() of ContextTest's goroutine. *)
WorkCancel(i) ==
    /\ work[i].caller = "returned"
    /\ work' = [work EXCEPT ![i].caller = "exited",
                            ![i].ctx = IF @ = CtxLive THEN Canceled ELSE @]
    /\ UNCHANGED notWorkVars

NextWork ==
    \/ \E i \in Works : WorkStart(i)
    \/ \E i \in Works : WorkCtxDeadline(i)
    \/ \E i \in Works : WorkerWake(i)
    \/ \E i \in Works : WorkerSelect(i)
    \/ \E i \in Works : WorkerSendReceived(i)
    \/ \E i \in Works : WorkerSendClosed(i)
    \/ \E i \in Works : WorkCallerDone(i)
    \/ \E i \in Works : WorkCancel(i)

(* Every goroutine that can run does. *)
FairWork ==
    \A i \in Works :
       /\ WF_vars(WorkStart(i))
       /\ WF_vars(WorkerWake(i))
       /\ WF_vars(WorkerSelect(i))
       /\ WF_vars(WorkerSendReceived(i))
       /\ WF_vars(WorkerSendClosed(i))
       /\ WF_vars(WorkCallerDone(i))
       /\ WF_vars(WorkCancel(i))

SpecWork == Init /\ [][NextWork]_vars /\ FairWork

----------------------------------------------------------------------------
(* The calls of package context.                                           *)

(* WithCancel(parent) *)
WithCancel ==
    /\ NextCtx(contexts) <= MaxCtx
    /\ \E p \in {Background} \cup Made(contexts) :
          \E c \in {NextCtx(contexts)} :
             /\ contexts' = PropagateCancel(
                    [contexts EXCEPT ![c] = [NewCtx EXCEPT !.kind = "cancelCtx",
                                                           !.parent = p]],
                    p, c)
             /\ clast' = [op |-> "WithCancel", c |-> c, err |-> CtxErrNil]
    /\ UNCHANGED notCtxVars

(* WithDeadline(parent, d) with d before the parent's deadline; passed     *)
(* tells whether d has passed when WithDeadline reads the clock.           *)
WithDeadline ==
    /\ NextCtx(contexts) <= MaxCtx
    /\ \E p \in {Background} \cup Made(contexts), passed \in BOOLEAN :
          \E c \in {NextCtx(contexts)} :
             \E cs \in {PropagateCancel(
                           [contexts EXCEPT ![c] = [NewCtx EXCEPT !.kind = "timerCtx",
                                                                  !.parent = p]],
                           p, c)} :
                /\ contexts' =
                      IF passed
                      THEN [TimerStop(RemoveChild(
                                CancelLocked(cs, c, DeadlineExceeded), c), c)
                            EXCEPT ![c].cfRemove = FALSE]
                      ELSE IF cs[c].err = CtxErrNil
                      THEN [cs EXCEPT ![c].timer = "armed"]
                      ELSE cs
                /\ clast' = [op |-> "WithDeadline", c |-> c, err |-> CtxErrNil]
    /\ UNCHANGED notCtxVars

(* The CancelFunc of c up to the end of the locked section of              *)
(* cancelCtx.cancel.  A cancelCtx that was cancelled already returns; a    *)
(* timerCtx goes on to removeChild and to the stop of its timer.           *)
CancelFunc(c) ==
    /\ contexts[c].kind # "none"
    /\ \E cs \in {CancelLocked(contexts, c, Canceled)} :
          contexts' =
             IF contexts[c].kind = "timerCtx"
             THEN [cs EXCEPT ![c].removing = @ \/ contexts[c].cfRemove,
                             ![c].stopping = TRUE]
             ELSE IF contexts[c].err # CtxErrNil THEN cs
             ELSE [cs EXCEPT ![c].removing = TRUE]
    /\ clast' = [op |-> "CancelFunc", c |-> c, err |-> Canceled]
    /\ UNCHANGED notCtxVars

(* The function of time.AfterFunc: c.cancel(true, DeadlineExceeded), up to *)
(* the end of the locked section.                                          *)
TimerFire(c) ==
    /\ contexts[c].timer = "armed"
    /\ \E cs \in {CancelLocked(contexts, c, DeadlineExceeded)} :
          contexts' = [cs EXCEPT ![c].timer = "fired",
                                 ![c].removing = TRUE,
                                 ![c].stopping = TRUE]
    /\ clast' = [op |-> "TimerFire", c |-> c, err |-> DeadlineExceeded]
    /\ UNCHANGED notCtxVars

(* removeChild(c.Context, c) of a cancel call on c. *)
CancelRemoveChild(c) ==
    /\ contexts[c].removing
    /\ contexts' = [RemoveChild(contexts, c) EXCEPT ![c].removing = FALSE]
    /\ clast' = [op |-> "removeChild", c |-> c, err |-> CtxErrNil]
    /\ UNCHANGED notCtxVars

(* c.mu.Lock(); if c.timer != nil { c.timer.Stop(); c.timer = nil } of a   *)
(* timerCtx.cancel call on c, after its removeChild.                       *)
CancelTimerStop(c) ==
    /\ contexts[c].stopping
    /\ ~contexts[c].removing
    /\ contexts' = [TimerStop(contexts, c) EXCEPT ![c].stopping = FALSE]
    /\ clast' = [op |-> "timerStop", c |-> c, err |-> CtxErrNil]
    /\ UNCHANGED notCtxVars

(* Some goroutine calls c.Done() for the first time. *)
CtxDone(c) ==
    /\ contexts[c].kind # "none"
    /\ contexts[c].done = "nil"
    /\ contexts' = DoneLoad(contexts, c)
    /\ clast' = [op |-> "Done", c |-> c, err |-> CtxErrNil]
    /\ UNCHANGED notCtxVars

NextCtxs ==
    \/ WithCancel
    \/ WithDeadline
    \/ \E c \in Ctxs : CancelFunc(c)
    \/ \E c \in Ctxs : TimerFire(c)
    \/ \E c \in Ctxs : CancelRemoveChild(c)
    \/ \E c \in Ctxs : CancelTimerStop(c)
    \/ \E c \in Ctxs : CtxDone(c)

SpecCtx == Init /\ [][NextCtxs]_vars

----------------------------------------------------------------------------
(* Structural sanity of the index *)

AllSeq == GetAllRankers(rankMain).ret

SlSane ==
    /\ rankMain.length = Cardinality(SlKeys(rankMain))
    /\ rankMain.length > 0 => Len(AllSeq) = rankMain.length
    /\ \A k \in SlKeys(rankMain) :
          /\ GetRank(rankMain, k).err = OK
          /\ GetRank(rankMain, k).ret = SlPosOf(rankMain, k)
    /\ \A r \in 1..rankMain.length :
          GetRankerDataByRank(rankMain, r).err = OK

----------------------------------------------------------------------------
(* Views of the current state used by the properties *)

Present == SlKeys(rankMain)

KeySeq(rm) ==
    [i \in 1..Len(GetAllRankers(rm).ret) |-> GetAllRankers(rm).ret[i].RankerId]

Without(seq, k) == SelectSeq(seq, LAMBDA x : x # k)

(* The entries other than k that the ordering rule puts before k, and      *)
(* those it leaves level with k.                                           *)
SortBefore(rm, k) == {n \in SlKeys(rm) \ {k} : Less(rm.elem[n], rm.elem[k])}

LevelWith(rm, k) ==
    {n \in SlKeys(rm) \ {k} :
        ~Less(rm.elem[n], rm.elem[k]) /\ ~Less(rm.elem[k], rm.elem[n])}

Removes == {"RemoveRanker", "RemoveRankerByKey"}

(* The ranker a remove has taken out of the index, as far as its own      *)
(* GetRank reads it: its key and its rankPtr after the call.               *)
RemovedRanker == [RankerId |-> last.key, rankPtr |-> last.rankPtr]

Stores == {"AddRanker", "UpdateRankerData"}

(* The ranker the last call was about, as far as its own GetRank reads it: *)
(* its key and its rankPtr after the call.                                 *)
OfferedRanker == [RankerId |-> last.key, rankPtr |-> last.rankPtr]

(* The nodes met on level i from node x on, following forward pointers (at *)
(* most fuel of them).                                                     *)
RECURSIVE SlChainFrom(_, _, _, _)
SlChainFrom(sl, i, x, fuel) ==
    IF x = Nil \/ fuel = 0 THEN <<>>
    ELSE <<x>> \o SlChainFrom(sl, i, sl.forward[x][i], fuel - 1)

(* The nodes linked at level i, in the order the level-i pointers give.    *)
SlChain(sl, i) == SlChainFrom(sl, i, sl.forward[Header][i], MaxKey + 1)

SeqSet(seq) == {seq[j] : j \in 1..Len(seq)}

(* The sum of the spans of the level-i pointers followed from the head to  *)
(* node n; -1 when n is not met.                                           *)
RECURSIVE SlSpanSumFrom(_, _, _, _, _, _)
SlSpanSumFrom(sl, i, x, n, acc, fuel) ==
    IF x = n THEN acc
    ELSE IF x = Nil \/ fuel = 0 THEN -1
    ELSE SlSpanSumFrom(sl, i, sl.forward[x][i], n, acc + sl.span[x][i], fuel - 1)

SlSpanSum(sl, i, n) == SlSpanSumFrom(sl, i, Header, n, 0, MaxKey + 1)

(* The queries answered from the plain sorted list.                        *)
PlainIndex(seq, k) == CHOOSE i \in 1..Len(seq) : seq[i].RankerId = k

PlainRank(seq, k) ==
    IF PlainHas(seq, k) THEN [ret |-> PlainIndex(seq, k), err |-> OK]
    ELSE [ret |-> 0, err |-> ErrNotFound]

PlainReverseRank(seq, k) ==
    IF PlainHas(seq, k)
    THEN [ret |-> Len(seq) - PlainIndex(seq, k) + 1, err |-> OK]
    ELSE [ret |-> 0, err |-> ErrNotFound]

PlainAt(seq, rank) ==
    IF rank < 1 \/ rank > Len(seq) THEN [ret |-> NoElem, err |-> ErrOutOfRange]
    ELSE [ret |-> seq[rank], err |-> OK]

PlainRange(seq, start, end) ==
    IF start < 1 \/ start > end THEN [ret |-> <<>>, err |-> ErrOutOfRange]
    ELSE [ret |-> SubSeq(seq, start, IF end > Len(seq) THEN Len(seq) ELSE end),
          err |-> OK]

(* t.Format("2006-01-02 15:04:05"): the time string of a second.          *)
Format(sec) == <<sec \div 60, sec % 60>>

(* The ids of a sequence of triggers, in order.                            *)
TriggerIds(ts) == [j \in 1..Len(ts) |-> ts[j].id]

(* The ids of the triggers the timer holds.                                *)
HeldIds == UNION {SeqSet(TriggerIds(triggers[sec])) : sec \in Seconds}

(* The int32 arguments the rank queries are tried with: below 1, within    *)
(* the count, and beyond it.                                               *)
RankArgs == (-1)..(MaxKey + 2)

----------------------------------------------------------------------------
(* C1 -- Ordering invariant: Range(1, count) returns the entries in        *)
(* non-increasing Value order, and among entries of equal Value in         *)
(* non-decreasing UpdateTime order; when the index is not empty it returns *)
(* every entry, once.                                                      *)
C1_OrderingInvariant ==
    LET r == Range(rankMain, 1, Count(rankMain)) IN
    /\ Count(rankMain) > 0 =>
          /\ r.err = OK
          /\ Len(r.ret) = Count(rankMain)
          /\ {r.ret[i].RankerId : i \in 1..Len(r.ret)} = Present
    /\ \A i, j \in 1..Len(r.ret) :
          i < j =>
             /\ r.ret[i].Value >= r.ret[j].Value
             /\ r.ret[i].Value = r.ret[j].Value
                   => r.ret[i].UpdateTime <= r.ret[j].UpdateTime

(* Three entries are held after a successful AddRanker: two of different   *)
(* Value, and two of equal Value and different UpdateTime.                 *)
C1_Witness ==
    LET r == Range(rankMain, 1, Count(rankMain)) IN
    /\ last.op = "AddRanker" /\ last.err = OK
    /\ Len(r.ret) = 3
    /\ \E i \in 1..2 : r.ret[i].Value > r.ret[i + 1].Value
    /\ \E i \in 1..2 : /\ r.ret[i].Value = r.ret[i + 1].Value
                       /\ r.ret[i].UpdateTime < r.ret[i + 1].UpdateTime

(* C2 -- Rank by key matches the ordering rule: for every key k present,   *)
(* GetRank(k) is 1 plus the number of present entries that sort before k   *)
(* (higher Value, or equal Value and earlier UpdateTime).                  *)
C2_RankMatchesOrder ==
    \A k \in Present :
        /\ GetRank(rankMain, k).err = OK
        /\ GetRank(rankMain, k).ret = 1 + Cardinality(SortBefore(rankMain, k))

(* C3 -- Update atomicity: after UpdateRankerData on a key that was        *)
(* present, the key is in the index and in dict, or in neither; it is      *)
(* never left in dict and absent from the index, or the reverse, also      *)
(* when the reinsert step fails.                                           *)
C3_UpdateAtomic ==
    (last.op = "UpdateRankerData" /\ last.err # ErrNotFound) =>
        (SlHas(rankMain, last.key) <=> dict[last.key] # NoValue)

(* C4 -- After a successful remove of key k (RemoveRanker or               *)
(* RemoveRankerByKey) k is absent from the index and from dict: GetRank(k) *)
(* fails, the count is one less, and dict no longer holds k.               *)
C4_RemoveClearsBoth ==
    [][ (last'.op \in Removes /\ last'.err = OK) =>
           /\ ~SlHas(rankMain', last'.key)
           /\ GetRank(rankMain', last'.key).err = ErrNotFound
           /\ Count(rankMain') = Count(rankMain) - 1
           /\ dict'[last'.key] = NoValue ]_vars

(* C5 -- After a successful UpdateRankerData(newData) on a present key k,  *)
(* the entry of k carries newData's Value and UpdateTime (in the index     *)
(* and in dict), the count is unchanged, GetRank(k) is the position the    *)
(* new sort key gives (after every entry that sorts before it, before      *)
(* every entry that sorts after it), and the relative order of all other   *)
(* entries is unchanged.                                                   *)
C5_UpdateRelocates ==
    [][ (last'.op = "UpdateRankerData" /\ last'.err = OK) =>
           /\ SlHas(rankMain, last'.key)
           /\ GetRankerDataByKey(rankMain', last'.key) =
                 [ret |-> last'.stored, err |-> OK]
           /\ dict'[last'.key] = last'.stored.Value
           /\ Count(rankMain') = Count(rankMain)
           /\ GetRank(rankMain', last'.key).err = OK
           /\ GetRank(rankMain', last'.key).ret >
                 Cardinality(SortBefore(rankMain', last'.key))
           /\ GetRank(rankMain', last'.key).ret <=
                 1 + Cardinality(SortBefore(rankMain', last'.key))
                   + Cardinality(LevelWith(rankMain', last'.key))
           /\ Without(KeySeq(rankMain'), last'.key) =
                 Without(KeySeq(rankMain), last'.key) ]_vars

(* A successful update has put its key at rank 1 of three entries, with    *)
(* no entry level with it.                                                 *)
C5_Witness ==
    /\ last.op = "UpdateRankerData" /\ last.err = OK
    /\ Count(rankMain) = 3
    /\ GetRank(rankMain, last.key).ret = 1
    /\ LevelWith(rankMain, last.key) = {}
    /\ dict[last.key] = last.stored.Value

(* C6 -- Duplicate rejection: AddRanker of a key already present fails     *)
(* with DuplicateKey and leaves the index and dict unchanged (same count,  *)
(* same rank for every key, same stored values).                           *)
C6_DuplicateRejected ==
    [][ (last'.op = "AddRanker" /\ SlHas(rankMain, last'.key)) =>
           /\ last'.err = ErrDuplicateKey
           /\ rankMain' = rankMain
           /\ Count(rankMain') = Count(rankMain)
           /\ RanksOf(rankMain') = RanksOf(rankMain)
           /\ dict' = dict ]_vars

(* An AddRanker was rejected as a duplicate while two entries are held.    *)
C6_Witness ==
    /\ last.op = "AddRanker" /\ last.err = ErrDuplicateKey
    /\ Count(rankMain) >= 2
    /\ dict[last.key] # NoValue

(* C7 -- Rank/element duality: for every rank r with 1 <= r <= count,      *)
(* GetRank(GetRankerDataByRank(r).Key()) = r.                              *)
C7_RankElementDuality ==
    \A r \in 1..Count(rankMain) :
        /\ GetRankerDataByRank(rankMain, r).err = OK
        /\ GetRank(rankMain, GetRankerDataByRank(rankMain, r).ret.RankerId) =
              [ret |-> r, err |-> OK]

(* Three entries are held and the index uses two levels.                   *)
C7_Witness ==
    /\ Count(rankMain) = 3
    /\ rankMain.level = 2
    /\ GetRankerDataByRank(rankMain, 3).err = OK

(* C8 -- Reverse rank law: for every key k present,                        *)
(* GetReverseRank(k) = count - GetRank(k) + 1, which is the position of k  *)
(* counting from the lowest-sorted entry.                                  *)
C8_ReverseRankLaw ==
    \A k \in Present :
        /\ GetReverseRank(rankMain, k).err = OK
        /\ GetReverseRank(rankMain, k).ret =
              Count(rankMain) - GetRank(rankMain, k).ret + 1
        /\ KeySeq(rankMain)[Count(rankMain) - GetReverseRank(rankMain, k).ret + 1] = k

(* Three entries are held and one of them has rank 3 and reverse rank 1.   *)
C8_Witness ==
    /\ Count(rankMain) = 3
    /\ \E k \in Present : /\ GetRank(rankMain, k).ret = 3
                          /\ GetReverseRank(rankMain, k).ret = 1

(* C9 -- Insert/delete inverse: after a new key is added and then that     *)
(* same key is removed, the count and the rank of every other key are as   *)
(* they were before the add.                                               *)
C9_InsertDeleteInverse ==
    snap.stage = "removed" =>
        /\ Count(rankMain) = snap.count
        /\ \A k \in Keys \ {snap.key} :
              GetRank(rankMain, k).ret = snap.rank[k]
        /\ \A k \in Present : GetRank(rankMain, k).err = OK
        /\ ~SlHas(rankMain, snap.key)

(* A key was added between two held entries and removed again.             *)
C9_Witness ==
    /\ snap.stage = "removed"
    /\ last.op \in Removes /\ last.err = OK
    /\ Count(rankMain) = 2

(* C10 -- UpdateRankerData, RemoveRanker and RemoveRankerByKey on a key    *)
(* that is not present fail with NotFound and leave the index and dict     *)
(* unchanged; UpdateRankerData never inserts a new entry.                  *)
C10_AbsentKeyRejected ==
    [][ (last'.op \in (Removes \cup {"UpdateRankerData"})
           /\ ~SlHas(rankMain, last'.key)) =>
           /\ last'.err = ErrNotFound
           /\ rankMain' = rankMain
           /\ dict' = dict ]_vars

(* C11 -- Range clamping: Range(start, end) with 1 <= start <= end and     *)
(* end > count returns, without an error, exactly the entries at ranks     *)
(* start..count in ascending rank order (none when start > count).         *)
C11_RangeClamps ==
    \A s, e \in RankArgs :
        (1 <= s /\ s <= e /\ e > Count(rankMain)) =>
            \E r \in {Range(rankMain, s, e)} :
                /\ r.err = OK
                /\ Len(r.ret) = Max(0, Count(rankMain) - s + 1)
                /\ \A i \in 1..Len(r.ret) :
                      /\ GetRankerDataByRank(rankMain, s + i - 1) =
                            [ret |-> r.ret[i], err |-> OK]
                      /\ GetRank(rankMain, r.ret[i].RankerId) =
                            [ret |-> s + i - 1, err |-> OK]

(* Three entries are held and Range(2, 5) returns the two entries of       *)
(* ranks 2 and 3.                                                          *)
C11_Witness ==
    /\ Count(rankMain) = 3
    /\ Range(rankMain, 2, 5).err = OK
    /\ Len(Range(rankMain, 2, 5).ret) = 2

(* C12 -- Range(start, end) fails with OutOfRange exactly when start < 1   *)
(* or start > end; with 1 <= start <= end and start > count (any such      *)
(* range of an empty index, as Range(1, 1)) it returns the empty sequence  *)
(* and no error.                                                           *)
C12_RangeOutOfRange ==
    \A s, e \in RankArgs :
        \E r \in {Range(rankMain, s, e)} :
            /\ r.err \in {OK, ErrOutOfRange}
            /\ r.err = ErrOutOfRange <=> (s < 1 \/ s > e)
            /\ r.err = ErrOutOfRange => r.ret = <<>>
            /\ (1 <= s /\ s <= e /\ s > Count(rankMain)) =>
                  r = [ret |-> <<>>, err |-> OK]

(* The last entry has been removed: the index is empty, Range(1, 1) is     *)
(* empty without an error and Range(0, 1) and Range(2, 1) fail.            *)
C12_Witness ==
    /\ last.op \in Removes /\ last.err = OK
    /\ Count(rankMain) = 0
    /\ Range(rankMain, 1, 1) = [ret |-> <<>>, err |-> OK]
    /\ Range(rankMain, 0, 1).err = ErrOutOfRange
    /\ Range(rankMain, 2, 1).err = ErrOutOfRange

(* C13 -- GetRank(k) and GetReverseRank(k) of a key k that is not in the   *)
(* index (any key when the index is empty, a key that has been removed)    *)
(* fail with NotFound and return no rank.                                  *)
C13_AbsentKeyNoRank ==
    \A k \in Keys \ Present :
        /\ GetRank(rankMain, k).err = ErrNotFound
        /\ GetRank(rankMain, k).ret \notin 1..MaxKey
        /\ GetReverseRank(rankMain, k).err = ErrNotFound
        /\ GetReverseRank(rankMain, k).ret \notin 1..MaxKey

(* A key has been removed from between two entries that stay, and its      *)
(* rank queries fail.                                                      *)
C13_Witness ==
    /\ last.op \in Removes /\ last.err = OK
    /\ Count(rankMain) = 2
    /\ last.key \notin Present
    /\ GetRank(rankMain, last.key).err = ErrNotFound
    /\ GetReverseRank(rankMain, last.key).err = ErrNotFound

(* C14 -- GetRankerDataByRank(rank) fails with OutOfRange exactly when     *)
(* rank < 1 or rank > count; otherwise it returns the entry at that        *)
(* 1-based position, which is the single entry of Range(rank, rank).       *)
C14_ElementByRank ==
    \A rank \in RankArgs :
        \E r \in {GetRankerDataByRank(rankMain, rank)} :
            /\ r.err \in {OK, ErrOutOfRange}
            /\ r.err = ErrOutOfRange <=> (rank < 1 \/ rank > Count(rankMain))
            /\ r.err = OK =>
                  /\ Range(rankMain, rank, rank) =
                        [ret |-> <<r.ret>>, err |-> OK]
                  /\ SlHas(rankMain, r.ret.RankerId)
                  /\ SlPosOf(rankMain, r.ret.RankerId) = rank

(* Three entries are held on two levels: rank 3 has an entry, ranks 0 and  *)
(* 4 are refused.                                                          *)
C14_Witness ==
    /\ Count(rankMain) = 3
    /\ rankMain.level = 2
    /\ GetRankerDataByRank(rankMain, 3).err = OK
    /\ GetRankerDataByRank(rankMain, 4).err = ErrOutOfRange
    /\ GetRankerDataByRank(rankMain, 0).err = ErrOutOfRange

(* C15 -- Every entry Range(start, end) returns reports its own rank       *)
(* through its rankPtr, and the i-th entry returned (from 0) reports       *)
(* start + i; so do entries that UpdateRankerData has placed.              *)
C15_SelfRankInRange ==
    \A s, e \in RankArgs :
        \E r \in {Range(rankMain, s, e)} :
            r.err = OK =>
                \A i \in 1..Len(r.ret) :
                    /\ r.ret[i].rankPtr = PtrRb
                    /\ RankerGetRank(r.ret[i], rankMain) =
                          [ret |-> s + i - 1, err |-> OK]

(* An update has placed its ranker at rank 3 of three entries; Range(2, 3) *)
(* returns it second and it reports rank 3.                                *)
C15_Witness ==
    /\ last.op = "UpdateRankerData" /\ last.err = OK
    /\ Count(rankMain) = 3
    /\ Len(Range(rankMain, 2, 3).ret) = 2
    /\ Range(rankMain, 2, 3).ret[2] = last.stored
    /\ RankerGetRank(last.stored, rankMain) = [ret |-> 3, err |-> OK]

(* C16 -- A ranker's rankPtr is nil whenever the ranker is not in the      *)
(* index: a ranker that was never inserted, and a ranker that RemoveRanker *)
(* or RemoveRankerByKey has removed, fail their own GetRank with the       *)
(* detached-ranker error.                                                  *)
C16_RemovedIsDetached ==
    /\ \A e \in Rankers :
          RankerGetRank(e, rankMain) = [ret |-> 0, err |-> ErrDetachedRanker]
    /\ (last.op \in Removes /\ last.err = OK) =>
          /\ last.rankPtr = PtrNil
          /\ RankerGetRank(RemovedRanker, rankMain).err = ErrDetachedRanker

(* C17 -- GetRankerDataByKey(k) returns, for every key k in the index, the *)
(* ranker of the most recent successful AddRanker or UpdateRankerData of   *)
(* k, and fails with NotFound for every key that is not in the index,      *)
(* never returning a removed entry: after every call its answer for the    *)
(* call's key is the ranker just stored (or NotFound after a remove), and  *)
(* its answer for every other key, and after a failed call for every key,  *)
(* is what it was before.                                                  *)
C17_EntryByKeyCurrent ==
    [][ \A k \in Keys :
          \E q \in {GetRankerDataByKey(rankMain', k)} :
             /\ q.err \in {OK, ErrNotFound}
             /\ q.err = OK <=> GetRank(rankMain', k).err = OK
             /\ q.err = ErrNotFound => q.ret = NoElem
             /\ IF last'.key = k /\ last'.err = OK
                THEN IF last'.op \in Stores
                     THEN q = [ret |-> last'.stored, err |-> OK]
                     ELSE q.err = ErrNotFound
                ELSE q = GetRankerDataByKey(rankMain, k) ]_vars

(* An update has replaced the ranker of a key while two other entries are  *)
(* held, and the query by key returns the new ranker.                      *)
C17_Witness ==
    /\ last.op = "UpdateRankerData" /\ last.err = OK
    /\ Count(rankMain) = 3
    /\ last.stored.Value = MaxValue
    /\ GetRankerDataByKey(rankMain, last.key) = [ret |-> last.stored, err |-> OK]

(* C19 -- Less is a strict total order on the entries held: of any two     *)
(* entries with different keys exactly one is Less than the other, also    *)
(* when their Value and UpdateTime are the same.                           *)
C19_StrictTotalOrder ==
    \A a, b \in Present :
        a # b =>
            (Less(rankMain.elem[a], rankMain.elem[b])
                <=> ~Less(rankMain.elem[b], rankMain.elem[a]))

(* C20 -- Every failure a caller can bring about comes back as an error    *)
(* value: after any sequence of AddRanker, RemoveRanker, RemoveRankerByKey *)
(* and UpdateRankerData with Ranker elements the error returned is nil,    *)
(* DuplicateKey or NotFound, and no Less against an entry held and no      *)
(* Range, GetRankerDataByRank or GetRankerDataByKey, whatever its          *)
(* arguments, reaches a panic of a type assertion.                         *)
C20_NoPanic ==
    /\ last.err \in {OK, ErrDuplicateKey, ErrNotFound}
    /\ \A k \in Present : \A e \in Rankers :
          /\ ~LessPanics(e, rankMain.elem[k])
          /\ ~LessPanics(rankMain.elem[k], SetRankPtr(e))
    /\ \A s, e \in RankArgs : ~RangePanics(rankMain, s, e)
    /\ \A rank \in RankArgs : ~GetRankerDataByRankPanics(rankMain, rank)
    /\ \A k \in Keys : ~GetRankerDataByKeyPanics(rankMain, k)

(* A call has failed with NotFound while two entries are held, and the     *)
(* queries by rank and by key fail for arguments that name no entry.       *)
C20_Witness ==
    /\ last.err = ErrNotFound
    /\ Count(rankMain) = 2
    /\ GetRankerDataByRank(rankMain, 3).err = ErrOutOfRange
    /\ GetRankerDataByKey(rankMain, last.key).err = ErrNotFound
    /\ Range(rankMain, 1, 2).err = OK

(* C21 -- In every reachable state dict holds exactly the keys the index   *)
(* holds, and for every key the value in dict is the Value of the entry    *)
(* in the index.                                                           *)
C21_DictMatchesIndex ==
    \A k \in Keys :
        /\ dict[k] # NoValue <=> SlHas(rankMain, k)
        /\ SlHas(rankMain, k) => dict[k] = rankMain.elem[k].Value

(* C22 -- Span invariant: at every level, the spans of the forward         *)
(* pointers followed from the head to a node linked at that level add up   *)
(* to the node's 1-based rank, so that the spans between two nodes of a    *)
(* level add up to the distance of their ranks.                            *)
C22_SpanInvariant ==
    \A n \in SlKeys(rankMain) :
        \A i \in Levels :
            i < rankMain.lvl[n] =>
                /\ SlSpanSum(rankMain, i, n) = SlPosOf(rankMain, n)
                /\ GetRank(rankMain, n) =
                      [ret |-> SlSpanSum(rankMain, i, n), err |-> OK]
                /\ \A m \in SlKeys(rankMain) :
                      rankMain.forward[n][i] = m =>
                          rankMain.span[n][i] =
                              SlPosOf(rankMain, m) - SlPosOf(rankMain, n)

(* After a remove two entries are left of which the second is linked at    *)
(* level 1 and the first is not: the head's level-1 pointer has span 2.    *)
C22_Witness ==
    /\ last.op \in Removes /\ last.err = OK
    /\ Count(rankMain) = 2
    /\ rankMain.level = 2
    /\ rankMain.span[Header][1] = 2

(* C23 -- Level structure: every node has between 1 and MaxLevel levels,   *)
(* the nodes linked at a level L > 0 are linked at level L - 1 too, and    *)
(* the level-0 pointers followed from the head meet every entry held       *)
(* once, in sort order.                                                    *)
C23_LevelStructure ==
    /\ \A n \in SlKeys(rankMain) : rankMain.lvl[n] \in 1..MaxLevel
    /\ rankMain.level \in 1..MaxLevel
    /\ \A i \in Levels :
          /\ SeqSet(SlChain(rankMain, i)) =
                {n \in SlKeys(rankMain) : rankMain.lvl[n] > i}
          /\ Len(SlChain(rankMain, i)) = Cardinality(SeqSet(SlChain(rankMain, i)))
          /\ i > 0 => SeqSet(SlChain(rankMain, i)) \subseteq
                          SeqSet(SlChain(rankMain, i - 1))
    /\ SeqSet(SlChain(rankMain, 0)) = SlKeys(rankMain)
    /\ \A j \in 1..(Len(SlChain(rankMain, 0)) - 1) :
          ~Less(rankMain.elem[SlChain(rankMain, 0)[j + 1]],
                rankMain.elem[SlChain(rankMain, 0)[j]])

(* After a remove two entries are left, one linked at both levels and one  *)
(* at level 0 only.                                                        *)
C23_Witness ==
    /\ last.op \in Removes /\ last.err = OK
    /\ Len(SlChain(rankMain, 0)) = 2
    /\ Len(SlChain(rankMain, 1)) = 1

(* C24 -- The count is the number of keys in the index; a successful       *)
(* AddRanker raises it by one, a successful remove lowers it by one, a     *)
(* successful UpdateRankerData and every failed call leave it as it was.   *)
C24_CountTracksKeys ==
    [][ /\ Count(rankMain') = Cardinality(SlKeys(rankMain'))
        /\ Count(rankMain') = Len(SlChain(rankMain', 0))
        /\ Count(rankMain') - Count(rankMain) =
              IF last'.err # OK THEN 0
              ELSE IF last'.op = "AddRanker" THEN 1
              ELSE IF last'.op \in Removes THEN -1
              ELSE 0 ]_vars

(* A successful update has left the count at 3.                            *)
C24_Witness ==
    /\ last.op = "UpdateRankerData" /\ last.err = OK
    /\ Count(rankMain) = 3
    /\ Cardinality(SlKeys(rankMain)) = 3

(* C25 -- The results of GetRank, GetReverseRank, GetRankerDataByRank and  *)
(* Range do not depend on the levels drawn for the nodes: whatever levels  *)
(* were drawn, they are the results a plain sorted list gives after the    *)
(* same calls.                                                             *)
C25_LevelIndependent ==
    /\ Count(rankMain) = Len(plain)
    /\ \A k \in Keys :
          /\ GetRank(rankMain, k) = PlainRank(plain, k)
          /\ GetReverseRank(rankMain, k) = PlainReverseRank(plain, k)
    /\ \A rank \in RankArgs :
          GetRankerDataByRank(rankMain, rank) = PlainAt(plain, rank)
    /\ \A s, e \in RankArgs :
          Range(rankMain, s, e) = PlainRange(plain, s, e)

(* Three entries are held, the second linked at two levels and the first   *)
(* and third at one.                                                       *)
C25_Witness ==
    /\ Len(plain) = 3
    /\ rankMain.lvl[plain[1].RankerId] = 1
    /\ rankMain.lvl[plain[2].RankerId] = 2
    /\ rankMain.lvl[plain[3].RankerId] = 1

(* C26 -- A failed AddRanker leaves the ranker it was given detached: when *)
(* AddRanker fails with DuplicateKey the ranker's rankPtr is not set, and  *)
(* its own GetRank fails with the detached-ranker error instead of giving  *)
(* the rank of the entry held under that key.                              *)
C26_FailedAddDetached ==
    (last.op = "AddRanker" /\ last.err = ErrDuplicateKey) =>
        /\ last.rankPtr = PtrNil
        /\ RankerGetRank(OfferedRanker, rankMain).err = ErrDetachedRanker

(* C27 -- GetAllRankers on an empty index (count 0) returns the empty      *)
(* sequence and no error.                                                  *)
C27_AllEntriesOfEmpty ==
    Count(rankMain) = 0 => GetAllRankers(rankMain) = [ret |-> <<>>, err |-> OK]

(* C28 -- Trigger(now) calls every trigger that is registered for the      *)
(* second of now when it is called, once each and in the order of          *)
(* registration, and then removes them, so that a Trigger for the same     *)
(* time right after it calls nothing; the triggers registered for another  *)
(* second are neither called nor removed.                                  *)
C28_TriggerFiresItsSecond ==
    [][ tlast'.op = "Trigger" =>
          /\ fired' = fired \o TriggerIds(triggers[tlast'.sec])
          /\ Cardinality(SeqSet(fired')) = Len(fired')
          /\ triggers'[tlast'.sec] = <<>>
          /\ TriggerOp([triggers |-> triggers', fired |-> fired',
                        pushed |-> pushed'], Format(tlast'.sec)).fired = fired'
          /\ \A s2 \in Seconds \ {tlast'.sec} :
                /\ Len(triggers'[s2]) >= Len(triggers[s2])
                /\ SubSeq(triggers'[s2], 1, Len(triggers[s2])) = triggers[s2]
                /\ SeqSet(TriggerIds(triggers'[s2])) \cap SeqSet(fired') = {} ]_vars

(* Three triggers were registered; a Trigger has called two of them in     *)
(* the order of their registration and the third, registered for the other *)
(* second, is still held.                                                  *)
C28_Witness ==
    /\ tlast.op = "Trigger"
    /\ pushed = 3
    /\ Len(fired) = 2 /\ fired[1] < fired[2]
    /\ triggers[tlast.sec] = <<>>
    /\ Cardinality(HeldIds) = 1

(* C29 -- No registered trigger is dropped without being called: every     *)
(* trigger registered so far, also one that a function running inside      *)
(* Trigger registered for the second being triggered, has been called or   *)
(* is still held by the timer.                                             *)
C29_NoTriggerDropped ==
    \A id \in 1..pushed : id \in SeqSet(fired) \/ id \in HeldIds

(* C30 -- With every Add of a positive delta made before the first Wait,   *)
(* no Wait returns while a task that was added has not called Done (the    *)
(* counter is above zero), and a Wait that is called when the counter is   *)
(* zero returns at once, without waiting on the semaphore; no goroutine    *)
(* panics.                                                                 *)
C30_WaitReturnsAtZero ==
    [][ \A j \in Waiters :
          /\ (waiter[j].pc # "returned" /\ waiter'[j].pc = "returned") =>
                /\ state'.v = 0
                /\ \A i \in Tasks : task'[i].pc # "running"
          /\ (waiter[j].pc = "idle" /\ waiter'[j].pc # "idle" /\ state.v = 0) =>
                waiter'[j].pc = "returned"
          /\ wgPanic' = NoPanic ]_vars

(* Two tasks were added and have called Done; both waiters waited on the   *)
(* semaphore and have returned.                                            *)
C30_Witness ==
    /\ added = 2
    /\ \A i \in Tasks : task[i].pc = "done"
    /\ \A j \in Waiters : waiter[j].pc = "returned" /\ waiter[j].v > 0
    /\ sema = 0


----------------------------------------------------------------------------
(* The goroutines blocked in Wait on the semaphore. *)
Blocked == {j \in Waiters : waiter[j].pc = "sem"}

(* The calls of Semrelease a Done in its release loop has still to make. *)
RECURSIVE PendingFrom(_)
PendingFrom(i) ==
    IF i > MaxTasks THEN 0
    ELSE (IF task[i].pc = "release" THEN task[i].w ELSE 0) + PendingFrom(i + 1)

Pending == PendingFrom(1)

(* C31: when a Done brings the counter to zero while w goroutines are      *)
(* blocked in Wait, the state word is reset to 0 and the semaphore is      *)
(* released exactly w times (the w that Done read is the number of blocked *)
(* goroutines, and the releases made and still to make match the blocked   *)
(* goroutines one for one), every blocked Wait returns in the end, and no  *)
(* goroutine panics unless Add was called before they had all returned.    *)
C31_ZeroReleasesWaiters ==
    /\ [][ /\ \A i \in Tasks :
                /\ (task[i].pc = "running" /\ task'[i].pc = "check") =>
                      /\ state' = [v |-> 0, w |-> Cardinality(Blocked')]
                      /\ task'[i].w = Cardinality(Blocked') /\ task'[i].w > 0
                /\ (task[i].pc = "reset" /\ task'[i].pc # "reset") =>
                      state' = NewState
            /\ (wgPanic' # NoPanic) => wgHist'.reuse ]_vars
    /\ [](~wgHist.reuse =>
            IF \E i \in Tasks : task[i].pc \in {"check", "reset"}
            THEN /\ sema = 0
                 /\ \A i \in Tasks : task[i].pc \in {"check", "reset"} =>
                       task[i].w = Cardinality(Blocked)
            ELSE IF state.w > 0
            THEN sema = 0 /\ Pending = 0 /\ state.w = Cardinality(Blocked)
            ELSE sema + Pending = Cardinality(Blocked))
    /\ \A j \in Waiters :
          (waiter[j].pc = "sem" /\ \E i \in Tasks : task[i].pc = "check")
             ~> (waiter[j].pc = "returned" \/ wgHist.reuse)

(* Both goroutines were blocked in Wait, one Done released the semaphore   *)
(* twice and both have returned, with no Add in between.                   *)
C31_Witness ==
    /\ ~wgHist.reuse
    /\ wgHist.released = MaxWaiters
    /\ \A j \in Waiters : waiter[j].pc = "returned" /\ waiter[j].v > 0
    /\ state = NewState
    /\ sema = 0
    /\ wgPanic = NoPanic


----------------------------------------------------------------------------
(* C32: Mgr.Wait returns only after every task added with Add has logged   *)
(* exactly one outcome (no task logs more than one at any time), each      *)
(* under an fcId of its own; a task is reported not ok only when its time  *)
(* limit has expired, and expiry does not force that outcome.              *)
C32_WaitAfterEveryOutcome ==
    /\ \A i \in Fcs :
          /\ Len(fc[i].out) <= 1
          /\ fc[i].out = <<LogNotOk>> => fc[i].expired
          /\ fc[i].late => fc[i].expired
          /\ \A k \in Fcs : (k # i /\ fc[i].id # 0) => fc[k].id # fc[i].id
    /\ mgrMain.pc = "finished" =>
          \A i \in Fcs : Len(fc[i].out) = 1 /\ fc[i].pc = "done"

(* Wait has returned, and a task whose f returned only after its time      *)
(* limit had expired was reported ok while another such task was not.      *)
C32_Witness ==
    /\ mgrMain.pc = "finished"
    /\ \E i \in Fcs : fc[i].late /\ fc[i].out = <<LogOk>>
    /\ \E i \in Fcs : fc[i].late /\ fc[i].out = <<LogNotOk>>


----------------------------------------------------------------------------
(* C33: the goroutine of Work never sends on c after the caller has        *)
(* closed it: it is never in the panic of a send on a closed channel, and  *)
(* it is never at its send while c is closed.                              *)
C33_NoSendOnClosed ==
    \A i \in Works :
       /\ work[i].worker # "panic"
       /\ ~(work[i].worker = "send" /\ work[i].c = ChanClosed)


----------------------------------------------------------------------------
(* The contexts registered under c: its children, their children, ...      *)
RECURSIVE Registered(_, _)
Registered(cs, c) ==
    cs[c].children \cup UNION {Registered(cs, k) : k \in cs[c].children}

(* a is the parent of c, or the parent of its parent, ...                  *)
RECURSIVE IsAncestor(_, _, _)
IsAncestor(cs, a, c) ==
    /\ cs[c].parent # Background
    /\ (cs[c].parent = a \/ IsAncestor(cs, a, cs[c].parent))

DoneClosed(cs, c) == cs[c].done \in {"closed", "closedchan"}

(* The contexts a step cancels: err was nil and is not after it.           *)
Cancelled(c) == contexts[c].err = CtxErrNil /\ contexts'[c].err # CtxErrNil

(* Err is nil exactly while Done is not closed, and a step that changes    *)
(* the err of a context is a call on that context or on one above it,      *)
(* never a call on a context below it.                                     *)
CancelGoesDown ==
    /\ \A c \in Ctxs : (contexts'[c].err # CtxErrNil) <=> DoneClosed(contexts', c)
    /\ \A c \in Ctxs :
          contexts'[c].err # contexts[c].err =>
             /\ Cancelled(c)
             /\ clast'.c = c \/ IsAncestor(contexts', clast'.c, c)

(* C34 as stated: the step that cancels a context leaves every context     *)
(* registered under it cancelled with the same error.                      *)
C34_SameErrorBelow ==
    [][ /\ CancelGoesDown
        /\ \A c \in Ctxs : Cancelled(c) =>
              \A d \in Registered(contexts, c) :
                 contexts'[d].err = contexts'[c].err ]_vars

(* C34: cancellation goes down only.  The step that cancels a context      *)
(* closes its Done and sets its err, and leaves every context registered   *)
(* under it cancelled: with the same error when it was not cancelled       *)
(* before, with the error it already had otherwise.  No call on a context  *)
(* changes a context above it, and err is nil exactly while Done is not    *)
(* closed.                                                                 *)
C34_CancelPropagatesDown ==
    [][ /\ CancelGoesDown
        /\ \A c \in Ctxs : Cancelled(c) =>
              \A d \in Registered(contexts, c) :
                 contexts'[d].err = IF contexts[d].err = CtxErrNil
                                    THEN contexts'[c].err
                                    ELSE contexts[d].err ]_vars

(* A context with a registered child and grandchild has been cancelled by  *)
(* its own CancelFunc or timer: all three hold its error, and the context  *)
(* it was made from is not cancelled.                                      *)
C34_Witness ==
    /\ clast.op \in {"CancelFunc", "TimerFire"}
    /\ clast.c = 2
    /\ contexts[2].parent = 1 /\ contexts[3].parent = 2
    /\ contexts[1].err = CtxErrNil
    /\ contexts[2].err = clast.err /\ contexts[3].err = clast.err
    /\ DoneClosed(contexts, 2) /\ DoneClosed(contexts, 3)


----------------------------------------------------------------------------
(* C35: cancel is idempotent.  Once a context has an err, no step (a call  *)
(* of its CancelFunc, its timer, the cancel of a context above it, or the  *)
(* rest of a cancel call still under way) changes its err, its Done or its *)
(* children, and close runs on its channel at most once: exactly once when *)
(* Done had been called before the first cancel, never when cancel stored  *)
(* the shared closed channel.                                              *)
C35_CancelIdempotent ==
    [][ \A c \in Ctxs :
          /\ contexts[c].err # CtxErrNil =>
                /\ contexts'[c].err = contexts[c].err
                /\ contexts'[c].done = contexts[c].done
                /\ contexts'[c].closes = contexts[c].closes
                /\ contexts'[c].children = {}
          /\ contexts'[c].closes = (IF contexts'[c].done = "closed" THEN 1 ELSE 0) ]_vars

(* The timer of a timerCtx has cancelled it, the context above it was      *)
(* cancelled by its CancelFunc, and then its own CancelFunc was called:    *)
(* it keeps the error of the timer and its channel was closed once.        *)
C35_Witness ==
    /\ clast.op = "CancelFunc" /\ clast.c = 2
    /\ contexts[2].parent = 1
    /\ contexts[2].timer = "fired"
    /\ contexts[1].err = Canceled
    /\ contexts[2].err = DeadlineExceeded
    /\ contexts[2].closes = 1

=============================================================================
